---- MODULE Spec2Model ----
(***************************************************************************)
(* County employment explorer (Theo-Datta-115/cs106-1).                    *)
(*                                                                         *)
(* The module models the orchestration layer of the application:           *)
(*   - NAICSApiService  (naicsApi.ts):  the static cache, getChildCodes,   *)
(*     searchChildCodes, fetchNAICSCodes, tryChartMethod,                  *)
(*     sweepSearchMethod;                                                  *)
(*   - CensusApiService (censusApi.ts): fetchEmploymentDataForZip and the  *)
(*     requests it makes, fetchSubIndustries;                              *)
(*   - App (App.tsx) and EmployerResults (EmployerResults.tsx): the        *)
(*     handlers that start a search and expand an industry row.            *)
(*                                                                         *)
(* Every async function is cut at its awaits: one action is the code that  *)
(* runs, without interruption, from the arrival of one HTTP response to    *)
(* the sending of the next request (or to the function's return, together  *)
(* with the continuations of its callers, which run in the same job).      *)
(* Strings whose characters the code inspects (NAICS codes, geoids) are    *)
(* sequences of one-character strings.                                     *)
(***************************************************************************)
EXTENDS Integers, Sequences, FiniteSets, Bags, TLC

VARIABLES
    cache,        \* NAICSApiService.cache: key -> NAICSCode list
    calls,        \* the NAICSApiService calls in flight (a bag)
    firstStored,  \* history: key -> the value first stored under the key
    returned      \* history: what the NAICSApiService call that returned in
                  \* the last step returned, if one did

naicsVars == <<cache, calls, firstStored, returned>>

VARIABLES
    isSearching,        \* App state
    employerData,       \* App state: the rows, with their sub-industries
    currentZip,         \* App state
    error,              \* App state
    expandedIndustries, \* App state
    selectedMetric,     \* App state
    zipCodeState,       \* ZipCodeSearch state: zipCode, the content of the input
    search,             \* the fetchEmploymentDataForZip call in flight
    expanding,          \* the handleExpandIndustry calls in flight (a bag)
    resolved,           \* history: the county found for currentZip
    event,              \* history: what the last step did, if it is a step
                        \* a property speaks about
    used                \* the searches and expand clicks so far

appVars == <<isSearching, employerData, currentZip, error, expandedIndustries,
             selectedMetric, zipCodeState, search, expanding, resolved, event,
             used>>

vars == <<naicsVars, appVars>>

---------------------------------------------------------------------------
(* Bounds of the model *)

\* how many getChildCodes calls may be in flight at a time
MaxCalls == 2
\* how many fetchNAICSCodes calls may be in flight at a time
MaxFetches == 2
\* the sectors with establishments in a county are among the first
\* MaxDataSectors codes of naicsCodes
MaxDataSectors == 2
\* the searches the user starts
MaxSearches == 1
\* the searches the user starts from the search form
MaxSubmits == 2
\* the clicks on expand and collapse buttons
MaxExpands == 2
\* the clicks where the termination of the requests is checked
MaxLiveExpands == 1
\* the sectors with data in the county of a displayed result
MaxRows == 11
\* records in one response of the NAICS data handler
MaxRecs == 2

---------------------------------------------------------------------------
(* Strings *)

Digits == {"0", "1", "2", "3", "4", "5", "6", "7", "8", "9"}

\* code unit order of the decimal digits (all that sort() and localeCompare
\* are applied to in this program are strings that passed a \d test)
DigitOrd == ("0" :> 0) @@ ("1" :> 1) @@ ("2" :> 2) @@ ("3" :> 3) @@ ("4" :> 4)
            @@ ("5" :> 5) @@ ("6" :> 6) @@ ("7" :> 7) @@ ("8" :> 8) @@ ("9" :> 9)

Min(a, b) == IF a <= b THEN a ELSE b

\* String.prototype.trim, the whitespace of the model being " "
RECURSIVE TrimStart(_)
TrimStart(s) ==
    IF s # <<>> /\ Head(s) = " " THEN TrimStart(Tail(s)) ELSE s

RECURSIVE TrimEnd(_)
TrimEnd(s) ==
    IF s # <<>> /\ s[Len(s)] = " " THEN TrimEnd(SubSeq(s, 1, Len(s) - 1)) ELSE s

Trim(s) == TrimEnd(TrimStart(s))

\* String.prototype.startsWith
StartsWith(s, p) == Len(p) <= Len(s) /\ SubSeq(s, 1, Len(p)) = p

\* /^\d+$/.test(s)
AllDigits(s) == s # <<>> /\ \A i \in 1..Len(s) : s[i] \in Digits

\* /^\d{2}$/.test(s)
TwoDigits(s) == Len(s) = 2 /\ AllDigits(s)

\* a.localeCompare(b) < 0, for strings of digits
RECURSIVE CodeLess(_, _)
CodeLess(a, b) ==
    IF a = <<>> THEN b # <<>>
    ELSE IF b = <<>> THEN FALSE
    ELSE IF Head(a) = Head(b) THEN CodeLess(Tail(a), Tail(b))
    ELSE DigitOrd[Head(a)] < DigitOrd[Head(b)]

\* the keys of a Map, sorted with localeCompare (keys are distinct)
RECURSIVE SortCodes(_)
SortCodes(S) ==
    IF S = {} THEN <<>>
    ELSE LET m == CHOOSE x \in S : \A y \in S \ {x} : CodeLess(x, y)
         IN  <<m>> \o SortCodes(S \ {m})

---------------------------------------------------------------------------
(* NAICSApiService: the data handler's responses *)

c11 == <<"1", "1">>
c21 == <<"2", "1">>
c111 == <<"1", "1", "1">>
c112 == <<"1", "1", "2">>

\* a record of the data handler's "result"; obj is FALSE for an entry that
\* is not an object, "" fields are absent ones.  title stands for the first
\* non-empty one of title, index_desc, description.
NaicsRec(n22, c, t) == [obj |-> TRUE, naics22 |-> n22, code |-> c, title |-> t]

NotAnObject == [obj |-> FALSE, naics22 |-> <<>>, code |-> <<>>, title |-> <<>>]

\* the records a search of the data handler answers with
NaicsRecords ==
    { NotAnObject,
      NaicsRec(<<>>, c111, <<>>),
      NaicsRec(<<" ", "1", "1", "2", " ">>, <<>>, <<"T">>),
      NaicsRec(<<"1", "1", "x">>, c112, <<>>),
      NaicsRec(<<"1", "1", "1", "1">>, <<>>, <<"T">>) }

\* the records the chart and a sweep seed are answered with
CodeRecords ==
    { NaicsRec(c11, <<>>, <<"T">>),
      NaicsRec(<<>>, c21, <<>>),
      NaicsRec(c111, <<>>, <<"T">>) }

\* what a request to the data handler can come to: a non-OK status, a body
\* that does not parse, an exception (fetch rejects, or the body is not an
\* object), or a parsed body whose result holds the records
ResponsesOf(records) ==
    { [kind |-> k, records |-> <<>>] : k \in {"notok", "badjson", "throw"} }
    \cup { [kind |-> "ok", records |-> r] :
             r \in UNION { [1..n -> records] : n \in 0..MaxRecs } }

NaicsResponses == ResponsesOf(NaicsRecords)
CodeResponses == ResponsesOf(CodeRecords)

\* the parent codes getChildCodes is called with, and the years of
\* fetchNAICSCodes
ParentCodes == {c11, c111}
Years == {<<"2022">>}

---------------------------------------------------------------------------
(* NAICSApiService: pure parts *)

\* title || `NAICS ${code}`
TitleOr(title, code) == IF title # <<>> THEN title ELSE <<"NAICS ">> \o code

\* Array.from(codes.entries()).sort(localeCompare).map(...)
MapToList(codes) ==
    LET s == SortCodes(DOMAIN codes)
    IN  [i \in 1..Len(s) |-> [code |-> s[i], title |-> codes[s[i]]]]

searchStrategies(parentCode) ==
    << parentCode,
       parentCode \o <<"*">>,
       parentCode \o <<"0">>,
       parentCode \o <<"1">>,
       SubSeq(parentCode, 1, Min(2, Len(parentCode))) >>

\* CollectChildren without the test code.length === targetLength
RECURSIVE CollectChildrenAnyLength(_, _, _)
CollectChildrenAnyLength(records, parentCode, codes) ==
    IF records = <<>> THEN codes
    ELSE LET rec == Head(records)
             code == Trim(IF rec.naics22 # <<>> THEN rec.naics22 ELSE rec.code)
             title == Trim(rec.title)
             isChild == /\ rec.obj
                        /\ StartsWith(code, parentCode)
                        /\ AllDigits(code)
         IN  CollectChildrenAnyLength(Tail(records), parentCode,
                 IF isChild /\ code \notin DOMAIN codes
                 THEN codes @@ (code :> TitleOr(title, code))
                 ELSE codes)

\* the loop over the records of one response in searchChildCodes
RECURSIVE CollectChildren(_, _, _)
CollectChildren(records, parentCode, codes) ==
    IF records = <<>> THEN codes
    ELSE LET rec == Head(records)
             code == Trim(IF rec.naics22 # <<>> THEN rec.naics22 ELSE rec.code)
             title == Trim(rec.title)
             isChild == /\ rec.obj
                        /\ Len(code) = Len(parentCode) + 1
                        /\ StartsWith(code, parentCode)
                        /\ AllDigits(code)
         IN  CollectChildren(Tail(records), parentCode,
                 IF isChild /\ code \notin DOMAIN codes
                 THEN codes @@ (code :> TitleOr(title, code))
                 ELSE codes)

\* the loop over the items of the chart response in tryChartMethod: a code
\* keeps the last non-empty title given for it
RECURSIVE CollectChart(_, _)
CollectChart(items, codes) ==
    IF items = <<>> THEN codes
    ELSE LET item == Head(items)
             code == Trim(IF item.code # <<>> THEN item.code ELSE item.naics22)
             title == Trim(item.title)
             new == IF title # <<>> THEN title
                    ELSE IF code \in DOMAIN codes THEN codes[code]
                    ELSE <<>>
         IN  CollectChart(Tail(items),
                 IF item.obj /\ TwoDigits(code)
                 THEN (code :> new) @@ codes
                 ELSE codes)

tryChartMethod(resp) ==
    IF resp.kind # "ok" THEN <<>>
    ELSE LET codes == CollectChart(resp.records, <<>>)
             s == SortCodes(DOMAIN codes)
         IN  [i \in 1..Len(s) |->
                 [code |-> s[i], title |-> TitleOr(codes[s[i]], s[i])]]

\* the loop over the records of one seed's response in sweepSearchMethod:
\* a code keeps the first title given for it
RECURSIVE CollectSweep(_, _)
CollectSweep(records, codes) ==
    IF records = <<>> THEN codes
    ELSE LET rec == Head(records)
             code == Trim(rec.naics22)
             title == Trim(rec.title)
         IN  CollectSweep(Tail(records),
                 IF rec.obj /\ TwoDigits(code) /\ code \notin DOMAIN codes
                 THEN codes @@ (code :> TitleOr(title, code))
                 ELSE codes)

seeds ==
    << "0", "1", "2", "3", "4", "5", "6", "7", "8", "9", "a", "b", "c", "d",
       "e", "f", "g", "h", "i", "j", "k", "l", "m", "n", "o", "p", "q", "r",
       "s", "t", "u", "v", "w", "x", "y", "z" >>

NC(code, title) == [code |-> code, title |-> <<title>>]

getFallbackNAICSCodes ==
    << NC(<<"1", "1">>, "Agriculture, Forestry, Fishing and Hunting"),
       NC(<<"2", "1">>, "Mining, Quarrying, and Oil and Gas Extraction"),
       NC(<<"2", "2">>, "Utilities"),
       NC(<<"2", "3">>, "Construction"),
       NC(<<"3", "1">>, "Manufacturing"),
       NC(<<"3", "2">>, "Manufacturing"),
       NC(<<"3", "3">>, "Manufacturing"),
       NC(<<"4", "2">>, "Wholesale Trade"),
       NC(<<"4", "4">>, "Retail Trade"),
       NC(<<"4", "5">>, "Retail Trade"),
       NC(<<"4", "8">>, "Transportation and Warehousing"),
       NC(<<"4", "9">>, "Transportation and Warehousing"),
       NC(<<"5", "1">>, "Information"),
       NC(<<"5", "2">>, "Finance and Insurance"),
       NC(<<"5", "3">>, "Real Estate and Rental and Leasing"),
       NC(<<"5", "4">>, "Professional, Scientific, and Technical Services"),
       NC(<<"5", "5">>, "Management of Companies and Enterprises"),
       NC(<<"5", "6">>, "Administrative and Support and Waste Management"),
       NC(<<"6", "1">>, "Educational Services"),
       NC(<<"6", "2">>, "Health Care and Social Assistance"),
       NC(<<"7", "1">>, "Arts, Entertainment, and Recreation"),
       NC(<<"7", "2">>, "Accommodation and Food Services"),
       NC(<<"8", "1">>, "Other Services (except Public Administration)"),
       NC(<<"9", "2">>, "Public Administration"),
       NC(<<"6", "2", "1">>, "Ambulatory Health Care Services"),
       NC(<<"6", "2", "2">>, "Hospitals"),
       NC(<<"6", "2", "3">>, "Nursing and Residential Care Facilities"),
       NC(<<"6", "2", "4">>, "Social Assistance"),
       NC(<<"6", "1", "1">>, "Educational Services"),
       NC(<<"5", "4", "1">>, "Professional, Scientific, and Technical Services"),
       NC(<<"7", "2", "2">>, "Food Services and Drinking Places"),
       NC(<<"7", "2", "1">>, "Accommodation"),
       NC(<<"2", "3", "6">>, "Construction of Buildings"),
       NC(<<"2", "3", "7">>, "Heavy and Civil Engineering Construction"),
       NC(<<"2", "3", "8">>, "Specialty Trade Contractors"),
       NC(<<"4", "4", "1">>, "Motor Vehicle and Parts Dealers"),
       NC(<<"4", "4", "5">>, "Food and Beverage Stores"),
       NC(<<"4", "5", "2">>, "General Merchandise Stores"),
       NC(<<"5", "6", "1">>, "Administrative and Support Services"),
       NC(<<"5", "6", "2">>, "Waste Management and Remediation Services"),
       NC(<<"3", "1", "1">>, "Food Manufacturing"),
       NC(<<"3", "3", "2">>, "Fabricated Metal Product Manufacturing"),
       NC(<<"3", "3", "3">>, "Machinery Manufacturing"),
       NC(<<"3", "3", "4">>, "Computer and Electronic Product Manufacturing"),
       NC(<<"4", "8", "4">>, "Truck Transportation"),
       NC(<<"4", "9", "3">>, "Warehousing and Storage"),
       NC(<<"5", "2", "2">>, "Credit Intermediation and Related Activities") >>

---------------------------------------------------------------------------
(* NAICSApiService: the calls *)

ChildrenKey(parentCode) == <<"children", parentCode>>
AllKey(year) == <<"all", year>>

\* Map.prototype.set
MapSet(map, key, value) == (key :> value) @@ map

\* A call slot.  pc is "idle", "search" (searchChildCodes waits for the
\* response to searchStrategies[term]), "chart" (tryChartMethod waits for
\* its response) or "sweep" (sweepSearchMethod waits for the response to
\* seeds[term]).  input is the input parameter of the request in flight,
\* nreq the number of requests the call has sent, codes the local variable
\* codes of the function that waits and swept the Map of sweepSearchMethod;
\* ok is a history: a request of searchChildCodes was answered with a body
\* that parsed.
IdleCall ==
    [pc |-> "idle", arg |-> <<>>, term |-> 0, input |-> <<>>, nreq |-> 0,
     codes |-> <<>>, swept |-> <<>>, ok |-> FALSE]

\* what a call returned, and how; chart and swept are what tryChartMethod
\* and sweepSearchMethod returned to fetchNAICSCodes
NoReturn ==
    [op |-> "none", arg |-> <<>>, hit |-> FALSE, ret |-> <<>>, nreq |-> 0,
     chart |-> <<>>, swept |-> <<>>, ok |-> FALSE]

Return(op, arg, hit, ret, nreq) ==
    [NoReturn EXCEPT !.op = op, !.arg = arg, !.hit = hit, !.ret = ret,
                     !.nreq = nreq]

\* history of the cache: the value first stored under each key
Remember(first, key, value) ==
    IF key \in DOMAIN first THEN first ELSE MapSet(first, key, value)

\* getChildCodes up to its first await: the cached list, or the call
\* waiting for the response to the first search term
getChildCodes(parentCode) ==
    IF ChildrenKey(parentCode) \in DOMAIN cache
    THEN [hit  |-> TRUE,
          ret  |-> cache[ChildrenKey(parentCode)],
          call |-> IdleCall]
    ELSE [hit  |-> FALSE,
          ret  |-> <<>>,
          call |-> [IdleCall EXCEPT
                      !.pc = "search", !.arg = parentCode, !.term = 1,
                      !.input = searchStrategies(parentCode)[1],
                      !.nreq = 1]]

\* searchChildCodes without the break at line 692: every term is requested
searchChildCodesNoBreak(call, resp) ==
    LET codes == IF resp.kind = "ok"
                 THEN CollectChildren(resp.records, call.arg, call.codes)
                 ELSE call.codes
    IN  IF call.term = 5
        THEN [done |-> TRUE, ret |-> MapToList(codes),
              call |-> [call EXCEPT !.codes = codes,
                                    !.ok = @ \/ resp.kind = "ok"]]
        ELSE [done |-> FALSE, ret |-> <<>>,
              call |-> [call EXCEPT
                          !.codes = codes,
                          !.ok = @ \/ resp.kind = "ok",
                          !.term = @ + 1,
                          !.input = searchStrategies(call.arg)[call.term + 1],
                          !.nreq = @ + 1]]

\* searchChildCodes requesting the first term once more when its request
\* failed
searchChildCodesRetry(call, resp) ==
    LET codes == IF resp.kind = "ok"
                 THEN CollectChildren(resp.records, call.arg, call.codes)
                 ELSE call.codes
    IN  IF resp.kind # "ok" /\ call.term = 1 /\ call.nreq = 1
        THEN [done |-> FALSE, ret |-> <<>>,
              call |-> [call EXCEPT !.nreq = @ + 1]]
        ELSE IF (resp.kind = "ok" /\ codes # <<>>)
                \/ call.term = Len(searchStrategies(call.arg))
        THEN [done |-> TRUE, ret |-> MapToList(codes),
              call |-> [call EXCEPT !.codes = codes,
                                    !.ok = @ \/ resp.kind = "ok"]]
        ELSE [done |-> FALSE, ret |-> <<>>,
              call |-> [call EXCEPT
                          !.codes = codes,
                          !.ok = @ \/ resp.kind = "ok",
                          !.term = @ + 1,
                          !.input = searchStrategies(call.arg)[call.term + 1],
                          !.nreq = @ + 1]]

\* searchChildCodes from the response to the term it waits for: the next
\* term is requested, or the loop ends and the children are returned
searchChildCodes(call, resp) ==
    LET codes == IF resp.kind = "ok"
                 THEN CollectChildren(resp.records, call.arg, call.codes)
                 ELSE call.codes
    IN  IF (resp.kind = "ok" /\ codes # <<>>)
           \/ call.term = Len(searchStrategies(call.arg))
        THEN [done |-> TRUE, ret |-> MapToList(codes),
              call |-> [call EXCEPT !.codes = codes,
                                    !.ok = @ \/ resp.kind = "ok"]]
        ELSE [done |-> FALSE, ret |-> <<>>,
              call |-> [call EXCEPT
                          !.codes = codes,
                          !.ok = @ \/ resp.kind = "ok",
                          !.term = @ + 1,
                          !.input = searchStrategies(call.arg)[call.term + 1],
                          !.nreq = @ + 1]]

\* getChildCodes from the return of searchChildCodes: the cache after it
getChildCodesStore(parentCode, children) ==
    MapSet(cache, ChildrenKey(parentCode), children)

\* the calls in flight with one more, one fewer, one replaced
Started(call) == IF call.pc = "idle" THEN calls ELSE calls (+) SetToBag({call})
Ended(call) == calls (-) SetToBag({call})
Continued(call, next) == (calls (-) SetToBag({call})) (+) SetToBag({next})

\* a caller other than the application calls
\* NAICSApiService.getChildCodes(parentCode)
GetChildCodes(parentCode) ==
    /\ BagCardinality(calls) < MaxCalls
    /\ LET r == getChildCodes(parentCode)
       IN  /\ calls' = Started(r.call)
           /\ returned' = IF r.hit
                          THEN Return("children", parentCode, TRUE, r.ret, 0)
                          ELSE NoReturn
    /\ UNCHANGED <<cache, firstStored>>
    /\ UNCHANGED appVars

\* the response to the search term a getChildCodes call waits for
SearchResponse(call) ==
    /\ call.pc = "search"
    /\ \E r \in { searchChildCodes(call, resp) : resp \in NaicsResponses } :
         IF r.done
         THEN /\ cache' = getChildCodesStore(call.arg, r.ret)
              /\ firstStored' = Remember(firstStored, ChildrenKey(call.arg), r.ret)
              /\ returned' = [Return("children", call.arg, FALSE, r.ret,
                                     r.call.nreq) EXCEPT !.ok = r.call.ok]
              /\ calls' = Ended(call)
         ELSE /\ calls' = Continued(call, r.call)
              /\ returned' = NoReturn
              /\ UNCHANGED <<cache, firstStored>>
    /\ UNCHANGED appVars

\* fetchNAICSCodes up to its first await
fetchNAICSCodes(year) ==
    IF AllKey(year) \in DOMAIN cache
    THEN [hit |-> TRUE, ret |-> cache[AllKey(year)], call |-> IdleCall]
    ELSE [hit |-> FALSE, ret |-> <<>>,
          call |-> [IdleCall EXCEPT !.pc = "chart", !.arg = year,
                                    !.input = <<"chart">>, !.nreq = 1]]

\* fetchNAICSCodes from the return of tryChartMethod: whether
\* sweepSearchMethod is called
sweepNeeded(codes) == Len(codes) = 0

\* codesOrFallback without the fallback of lines 425-428
codesNoFallback(codes) == codes

\* fetchNAICSCodes from the return of sweepSearchMethod: the list returned
codesOrFallback(codes) ==
    IF Len(codes) = 0 THEN getFallbackNAICSCodes ELSE codes

\* a caller calls NAICSApiService.fetchNAICSCodes(year)
FetchNAICSCodes(year) ==
    /\ BagCardinality(calls) < MaxFetches
    /\ LET r == fetchNAICSCodes(year)
       IN  /\ calls' = Started(r.call)
           /\ returned' = IF r.hit THEN Return("all", year, TRUE, r.ret, 0)
                          ELSE NoReturn
    /\ UNCHANGED <<cache, firstStored>>
    /\ UNCHANGED appVars

\* a fetchNAICSCodes call stores and returns its list
ReturnAll(call, last, ret) ==
    /\ cache' = MapSet(cache, AllKey(call.arg), ret)
    /\ firstStored' = Remember(firstStored, AllKey(call.arg), ret)
    /\ returned' = [Return("all", call.arg, FALSE, ret, last.nreq) EXCEPT
                      !.chart = last.codes, !.swept = MapToList(last.swept)]
    /\ calls' = Ended(call)

\* the response to the chart request of a fetchNAICSCodes call
ChartResponse(call) ==
    /\ call.pc = "chart"
    /\ \E codes \in { tryChartMethod(resp) : resp \in CodeResponses } :
         LET last == [call EXCEPT !.codes = codes]
         IN  IF sweepNeeded(codes)
             THEN /\ calls' = Continued(call,
                                 [last EXCEPT !.pc = "sweep", !.term = 1,
                                              !.input = <<seeds[1]>>,
                                              !.nreq = @ + 1])
                  /\ returned' = NoReturn
                  /\ UNCHANGED <<cache, firstStored>>
             ELSE ReturnAll(call, last, codesOrFallback(codes))
    /\ UNCHANGED appVars

\* sweepSearchMethod from the response to the seed it waits for: its Map
sweepSearchMethod(call, resp) ==
    IF resp.kind = "ok" THEN CollectSweep(resp.records, call.swept)
    ELSE call.swept

\* the response to the seed a fetchNAICSCodes call waits for in
\* sweepSearchMethod
SweepResponse(call) ==
    /\ call.pc = "sweep"
    /\ \E swept \in { sweepSearchMethod(call, resp) : resp \in CodeResponses } :
         LET last == [call EXCEPT !.swept = swept]
         IN  IF call.term < Len(seeds)
             THEN /\ calls' = Continued(call,
                                 [last EXCEPT !.term = @ + 1,
                                              !.input = <<seeds[call.term + 1]>>,
                                              !.nreq = @ + 1])
                  /\ returned' = NoReturn
                  /\ UNCHANGED <<cache, firstStored>>
             ELSE ReturnAll(call, last, codesOrFallback(MapToList(swept)))
    /\ UNCHANGED appVars

---------------------------------------------------------------------------
(* CensusApiService: data *)

naicsCodes ==
    << <<"1", "1">>, <<"2", "1">>, <<"2", "2">>, <<"2", "3">>, <<"3", "1">>,
       <<"3", "2">>, <<"3", "3">>, <<"4", "2">>, <<"4", "4">>, <<"4", "5">>,
       <<"4", "8">>, <<"4", "9">>, <<"5", "1">>, <<"5", "2">>, <<"5", "3">>,
       <<"5", "4">>, <<"5", "5">>, <<"5", "6">>, <<"6", "1">>, <<"6", "2">>,
       <<"7", "1">>, <<"7", "2">>, <<"8", "1">>, <<"9", "2">> >>

\* the NAICS2017 parameter of the county totals request
totalsCode == <<"0", "0">>

County(state, county) == [state |-> state, county |-> county]

\* the table of getCountyFallback (the county names are left out)
zipToCounty ==
    (<<"0", "2", "4", "5", "9">> :> County(<<"2", "5">>, <<"0", "1", "7">>))
    @@ (<<"0", "2", "1", "3", "8">> :> County(<<"2", "5">>, <<"0", "1", "7">>))
    @@ (<<"0", "2", "1", "1", "5">> :> County(<<"2", "5">>, <<"0", "2", "5">>))
    @@ (<<"0", "2", "1", "0", "1">> :> County(<<"2", "5">>, <<"0", "2", "5">>))
    @@ (<<"0", "2", "1", "1", "6">> :> County(<<"2", "5">>, <<"0", "2", "5">>))
    @@ (<<"0", "2", "1", "3", "4">> :> County(<<"2", "5">>, <<"0", "2", "5">>))
    @@ (<<"1", "0", "0", "0", "1">> :> County(<<"3", "6">>, <<"0", "6", "1">>))
    @@ (<<"1", "0", "0", "0", "2">> :> County(<<"3", "6">>, <<"0", "6", "1">>))
    @@ (<<"1", "0", "0", "0", "3">> :> County(<<"3", "6">>, <<"0", "6", "1">>))
    @@ (<<"1", "1", "2", "0", "1">> :> County(<<"3", "6">>, <<"0", "4", "7">>))
    @@ (<<"9", "0", "2", "1", "0">> :> County(<<"0", "6">>, <<"0", "3", "7">>))
    @@ (<<"9", "0", "2", "1", "1">> :> County(<<"0", "6">>, <<"0", "3", "7">>))
    @@ (<<"9", "4", "1", "0", "2">> :> County(<<"0", "6">>, <<"0", "7", "5">>))
    @@ (<<"9", "4", "1", "0", "3">> :> County(<<"0", "6">>, <<"0", "7", "5">>))
    @@ (<<"6", "0", "6", "0", "1">> :> County(<<"1", "7">>, <<"0", "3", "1">>))
    @@ (<<"6", "0", "6", "0", "2">> :> County(<<"1", "7">>, <<"0", "3", "1">>))
    @@ (<<"6", "0", "6", "0", "3">> :> County(<<"1", "7">>, <<"0", "3", "1">>))
    @@ (<<"7", "7", "0", "0", "1">> :> County(<<"4", "8">>, <<"2", "0", "1">>))
    @@ (<<"7", "5", "2", "0", "1">> :> County(<<"4", "8">>, <<"1", "1", "3">>))
    @@ (<<"3", "3", "1", "0", "1">> :> County(<<"1", "2">>, <<"0", "8", "6">>))
    @@ (<<"3", "3", "1", "0", "2">> :> County(<<"1", "2">>, <<"0", "8", "6">>))
    @@ (<<"9", "8", "1", "0", "1">> :> County(<<"5", "3">>, <<"0", "3", "3">>))
    @@ (<<"9", "8", "1", "0", "2">> :> County(<<"5", "3">>, <<"0", "3", "3">>))
    @@ (<<"2", "0", "8", "1", "0">> :> County(<<"2", "4">>, <<"0", "3", "1">>))

\* the table of getStateCountyFromLocation in EmployerResults
zipToStateCounty ==
    (<<"0", "2", "4", "5", "9">> :> County(<<"2", "5">>, <<"0", "1", "7">>))
    @@ (<<"1", "0", "0", "0", "1">> :> County(<<"3", "6">>, <<"0", "6", "1">>))
    @@ (<<"9", "0", "2", "1", "0">> :> County(<<"0", "6">>, <<"0", "3", "7">>))
    @@ (<<"6", "0", "6", "0", "1">> :> County(<<"1", "7">>, <<"0", "3", "1">>))

\* the ZIP codes searched: in both tables, in the table of getCountyFallback
\* only, in neither
Zips ==
    { <<"0", "2", "4", "5", "9">>,
      <<"0", "2", "1", "1", "5">>,
      <<"9", "9", "5", "0", "1">> }

\* the geoid of a HUD result: absent, too short, or a county
Geoids ==
    { <<>>,
      <<"2", "5", "0", "2">>,
      <<"2", "5", "0", "2", "5">> }

\* what the HUD request can come to: fetch rejects, a non-OK status, a body
\* that does not parse, a body without a result, a result with a geoid
HudResponses ==
    { [kind |-> k, geoid |-> <<>>] : k \in {"reject", "notok", "badjson", "noresult"} }
    \cup { [kind |-> "result", geoid |-> g] : g \in Geoids }

\* a data row of a Census body: the cells EMP, ESTAB, PAYANN (NAME, the label
\* and GEO_ID, which are only displayed, are left out)
Cells(emp, estab, payann) == [EMP |-> emp, ESTAB |-> estab, PAYANN |-> payann]

\* the bodies of the sector requests that parse to a header and data rows
SectorBodies ==
    { << Cells(<<"5">>, <<"2">>, <<"3">>) >>,
      << Cells(<<"9">>, <<"1">>, <<"D">>) >>,
      << Cells(<<"0">>, <<"N">>, <<>>) >> }

\* the bodies of the county totals request that parse to a header and rows
TotalsBodies ==
    { << Cells(<<"2", "0">>, <<"S">>, <<"9">>) >> }

\* what a Census request can come to: fetch rejects, a non-OK status, a
\* blank body, a body that does not parse, a body that is no array of two
\* rows or more, a header with data rows
NoRows == { [kind |-> k, rows |-> <<>>] :
              k \in {"reject", "notok", "blank", "badjson", "short"} }

SectorResponses == NoRows \cup { [kind |-> "rows", rows |-> b] : b \in SectorBodies }

TotalsResponses == NoRows \cup { [kind |-> "rows", rows |-> b] : b \in TotalsBodies }

---------------------------------------------------------------------------
(* CensusApiService: pure parts *)

\* parseInt(value, 10): leading blanks, a sign, then digits; nan when there
\* is no digit
RECURSIVE DigitsValue(_, _)
DigitsValue(s, acc) ==
    IF s = <<>> \/ Head(s) \notin Digits THEN acc
    ELSE DigitsValue(Tail(s), 10 * acc + DigitOrd[Head(s)])

parseInt(value) ==
    LET t == TrimStart(value)
        neg == t # <<>> /\ Head(t) = "-"
        u == IF t # <<>> /\ Head(t) \in {"-", "+"} THEN Tail(t) ELSE t
    IN  IF u = <<>> \/ Head(u) \notin Digits
        THEN [nan |-> TRUE, n |-> 0]
        ELSE [nan |-> FALSE,
              n |-> IF neg THEN 0 - DigitsValue(u, 0) ELSE DigitsValue(u, 0)]

Suppressed == { <<"n", "u", "l", "l">>, <<"N">>, <<"D">>, <<"S">> }

parseEmployeeCount(value) ==
    IF value = <<>> \/ value \in Suppressed THEN 0
    ELSE IF parseInt(value).nan THEN 0 ELSE parseInt(value).n

parsePayroll(value) ==
    IF value = <<>> \/ value \in Suppressed THEN 0
    ELSE IF parseInt(value).nan THEN 0 ELSE parseInt(value).n * 1000

\* (zip || "").replace(/\D/g, "").padStart(5, "0").slice(0, 5)
RECURSIVE OnlyDigits(_)
OnlyDigits(s) ==
    IF s = <<>> THEN <<>>
    ELSE IF Head(s) \in Digits THEN <<Head(s)>> \o OnlyDigits(Tail(s))
    ELSE OnlyDigits(Tail(s))

RECURSIVE PadStart(_, _, _)
PadStart(s, n, c) == IF Len(s) >= n THEN s ELSE PadStart(<<c>> \o s, n, c)

NormalizeZip(zip) ==
    LET padded == PadStart(OnlyDigits(zip), 5, "0")
    IN  SubSeq(padded, 1, 5)

\* countyFromZip_viaHUD from the response to its request: the county, or
\* failed when it throws
countyFromZip_viaHUD(resp) ==
    IF resp.kind # "result" \/ resp.geoid = <<>> \/ Len(resp.geoid) # 5
    THEN [failed |-> TRUE, county |-> County(<<>>, <<>>)]
    ELSE [failed |-> FALSE,
          county |-> County(SubSeq(resp.geoid, 1, 2), SubSeq(resp.geoid, 3, 5))]

\* getCountyFallback: the county of the table, or none (null)
getCountyFallback(zipCode) ==
    IF zipCode \in DOMAIN zipToCounty
    THEN [none |-> FALSE, county |-> zipToCounty[zipCode]]
    ELSE [none |-> TRUE, county |-> County(<<>>, <<>>)]

\* getCountyFromZip with the two methods exchanged: the table first, the
\* HUD lookup when the table has no entry
getCountyFromZipTableFirst(zipCode, resp) ==
    IF ~getCountyFallback(zipCode).none
    THEN [none |-> FALSE, county |-> getCountyFallback(zipCode).county,
          via |-> "fallback"]
    ELSE [none |-> countyFromZip_viaHUD(resp).failed,
          county |-> countyFromZip_viaHUD(resp).county, via |-> "hud"]

\* getCountyFromZip from the response to the HUD request
getCountyFromZip(zipCode, resp) ==
    IF countyFromZip_viaHUD(resp).failed
    THEN [none |-> getCountyFallback(zipCode).none,
          county |-> getCountyFallback(zipCode).county, via |-> "fallback"]
    ELSE [none |-> FALSE, county |-> countyFromZip_viaHUD(resp).county,
          via |-> "hud"]

\* county totals, as fetchCountyTotals returns them and as a row carries
\* them; defined is FALSE for the undefined fields of a row
Totals(e, b, p) ==
    [defined |-> TRUE, employees |-> e, establishments |-> b, payroll |-> p]

NoTotals ==
    [defined |-> FALSE, employees |-> 0, establishments |-> 0, payroll |-> 0]

\* fetchCountyTotals without the early returns and the catch: a request that
\* fails brings no totals
fetchCountyTotalsUnguarded(resp) ==
    IF resp.kind # "rows" THEN NoTotals
    ELSE Totals(parseEmployeeCount(resp.rows[1].EMP),
                parseEmployeeCount(resp.rows[1].ESTAB),
                parsePayroll(resp.rows[1].PAYANN))

\* fetchCountyTotals from the response to its request
fetchCountyTotals(resp) ==
    IF resp.kind # "rows" THEN Totals(0, 0, 0)
    ELSE Totals(parseEmployeeCount(resp.rows[1].EMP),
                parseEmployeeCount(resp.rows[1].ESTAB),
                parsePayroll(resp.rows[1].PAYANN))

\* a ProcessedEmployerData: absent sub-industries are an empty list, absent
\* flags are FALSE (the code tests them for truth only)
Row(naicsCode, employees, establishments, payroll) ==
    [naicsCode |-> naicsCode, employees |-> employees,
     establishments |-> establishments, payroll |-> payroll,
     level |-> Len(naicsCode), totals |-> NoTotals, subIndustries |-> <<>>,
     isExpanded |-> FALSE, isLoadingSubIndustries |-> FALSE]

HasData(item) ==
    item.employees > 0 \/ item.establishments > 0 \/ item.payroll > 0

\* the loop over the data rows in fetchCountySectorData
RECURSIVE SectorRows(_, _)
SectorRows(rows, naicsCode) ==
    IF rows = <<>> THEN <<>>
    ELSE LET item == Row(naicsCode,
                         parseEmployeeCount(Head(rows).EMP),
                         parseEmployeeCount(Head(rows).ESTAB),
                         parsePayroll(Head(rows).PAYANN))
         IN  (IF HasData(item) THEN <<item>> ELSE <<>>)
             \o SectorRows(Tail(rows), naicsCode)

\* fetchCountySectorData returning a record without data for a request
\* that failed
fetchCountySectorDataPlaceholder(naicsCode, resp) ==
    IF resp.kind # "rows" THEN << Row(naicsCode, 0, 0, 0) >>
    ELSE SectorRows(resp.rows, naicsCode)

\* fetchCountySectorData from the response to its request
fetchCountySectorData(naicsCode, resp) ==
    IF resp.kind # "rows" THEN <<>> ELSE SectorRows(resp.rows, naicsCode)

\* Array.prototype.filter with the test of lines 277 and 368
RECURSIVE FilterData(_)
FilterData(items) ==
    IF items = <<>> THEN <<>>
    ELSE (IF HasData(Head(items)) THEN <<Head(items)>> ELSE <<>>)
         \o FilterData(Tail(items))

\* Array.prototype.sort((a, b) => b.employees - a.employees), which is stable
RECURSIVE InsertByEmployees(_, _)
InsertByEmployees(item, sorted) ==
    IF sorted = <<>> THEN <<item>>
    ELSE IF Head(sorted).employees >= item.employees
         THEN <<Head(sorted)>> \o InsertByEmployees(item, Tail(sorted))
         ELSE <<item>> \o sorted

RECURSIVE SortByEmployees(_)
SortByEmployees(items) ==
    IF items = <<>> THEN <<>>
    ELSE InsertByEmployees(items[Len(items)],
                           SortByEmployees(SubSeq(items, 1, Len(items) - 1)))

\* the return of fetchEmploymentByCounty without the sort
sectorResultUnsorted(results) == FilterData(results)

\* the return of fetchEmploymentByCounty
sectorResult(results) == SortByEmployees(FilterData(results))

\* fetchEmploymentDataForZip returning the sectors as they are
withoutCountyTotals(sectorData, countyTotals) == sectorData

\* the county totals added to each sector in fetchEmploymentDataForZip
withCountyTotals(sectorData, countyTotals) ==
    [i \in 1..Len(sectorData) |->
        [sectorData[i] EXCEPT !.totals =
            Totals(countyTotals.employees, countyTotals.establishments,
                   countyTotals.payroll)]]

---------------------------------------------------------------------------
(* App and CensusApiService: a search *)

\* a Census statistics request: its NAICS2017, state and county parameters
Request(naics, c) ==
    [NAICS2017 |-> naics, state |-> c.state, county |-> c.county]

NoCounty == County(<<>>, <<>>)

\* The fetchEmploymentDataForZip call of handleSearch.  pc is "idle", "hud"
\* (countyFromZip_viaHUD waits for its response) or "census" (the two
\* fetches of the Promise.all are under way).  query is the query parameter
\* of the HUD request, idx the index in naicsCodes of the sector query in
\* flight, results the local variable of fetchEmploymentByCounty,
\* sectorData and totals what the two fetches resolved to, sent the Census
\* statistics requests sent so far.
IdleSearch ==
    [pc |-> "idle", zip |-> <<>>, query |-> <<>>, county |-> NoCounty,
     idx |-> 0, results |-> <<>>, sectorDone |-> FALSE, sectorData |-> <<>>,
     totalsDone |-> FALSE, totals |-> NoTotals, sent |-> <<>>]

NoHud == [kind |-> "none", geoid |-> <<>>]

\* what the last step did: kind is "none", "county" (getCountyFromZip
\* returned a county), "searchFailed", "sector" and "totals" (a response
\* of the kind response came to a Census request of the search, which goes
\* on), "searchDone" (the same, and the search ends), "child" (a response
\* came to a statistics query of an expansion, which goes on), "expand" (the expand
\* branch of handleExpandIndustry called fetchSubIndustries), "collapse",
\* "expanded" (fetchSubIndustries returned to handleExpandIndustry)
NoEvent ==
    [kind |-> "none", zip |-> <<>>, hud |-> NoHud, via |-> "",
     county |-> NoCounty, sent |-> <<>>, sectorData |-> <<>>,
     totals |-> NoTotals, sectorDone |-> FALSE, totalsDone |-> FALSE,
     last |-> "", ret |-> <<>>, naicsCode |-> <<>>, percent |-> <<>>,
     response |-> ""]

NotResolved == [found |-> FALSE, zip |-> <<>>, county |-> NoCounty]

\* the message of the ApiError of lines 85 and 103 (the ZIP code at its
\* end is left out)
CountyNotFound ==
    "Failed to fetch employment data: Could not find county for ZIP code"

\* Promise.race in the place of Promise.all: one fetch has resolved
anySettled(sectorDone, totalsDone) == sectorDone \/ totalsDone

\* Promise.all of line 89: both fetches have resolved
allSettled(sectorDone, totalsDone) == sectorDone /\ totalsDone

\* the loop of fetchEmploymentByCounty without the try/catch of the query:
\* a query that brings nothing ends the loop
fetchEmploymentByCountyUntilEmpty(s, sectorData) ==
    IF s.idx < Len(naicsCodes) /\ sectorData # <<>>
    THEN [s EXCEPT !.results = @ \o sectorData,
                   !.idx = @ + 1,
                   !.sent = Append(@, Request(naicsCodes[s.idx + 1], s.county))]
    ELSE [s EXCEPT !.results = @ \o sectorData,
                   !.idx = 0,
                   !.sectorDone = TRUE,
                   !.sectorData = sectorResult(s.results \o sectorData)]

\* the loop of fetchEmploymentByCounty from the return of the query it
\* waits for: the next code is queried, or the loop ends
fetchEmploymentByCounty(s, sectorData) ==
    IF s.idx < Len(naicsCodes)
    THEN [s EXCEPT !.results = @ \o sectorData,
                   !.idx = @ + 1,
                   !.sent = Append(@, Request(naicsCodes[s.idx + 1], s.county))]
    ELSE [s EXCEPT !.results = @ \o sectorData,
                   !.idx = 0,
                   !.sectorDone = TRUE,
                   !.sectorData = sectorResult(s.results \o sectorData)]

\* the two fetches started with the queries for all the codes sent at once
startFetchesAllAtOnce(county) ==
    [i \in 1..Len(naicsCodes) |-> Request(naicsCodes[i], county)]
    \o << Request(totalsCode, county) >>

\* the requests sent when the two fetches of line 89 are started:
\* fetchEmploymentByCounty runs to the query for the first code,
\* fetchCountyTotals to its request
startFetches(county) ==
    << Request(naicsCodes[1], county), Request(totalsCode, county) >>

\* what the query for naicsCodes[idx] can come to
SectorResponsesOf(idx) ==
    IF idx <= MaxDataSectors THEN SectorResponses ELSE NoRows

\* the onChange handler of the input applied to the value of the element:
\* the non-digits are removed and the first five characters kept
onChange(value) ==
    LET digits == OnlyDigits(value) IN SubSeq(digits, 1, Min(5, Len(digits)))

\* isValidZip for the content of the input
isValidZip(zipCode) == Len(zipCode) = 5 /\ AllDigits(zipCode)

\* the submit button that is not disabled while a search is in progress
submitEnabledWhileLoading(zipCode) == isValidZip(zipCode)

\* the submit button is not disabled (the disabled prop of App is false); a
\* form whose submit button is disabled is not submitted by the Enter key
\* either
submitEnabled(zipCode) == isValidZip(zipCode) /\ ~isSearching

\* the form is submitted with zipCode in the input: handleSubmit of
\* ZipCodeSearch, and handleSearch of App, which it calls, up to the HUD
\* request
onSubmit(zipCode) ==
    /\ submitEnabled(zipCode)
    /\ Trim(zipCode) # <<>> /\ Len(zipCode) = 5
    /\ isSearching' = TRUE
    /\ error' = ""
    /\ employerData' = <<>>
    /\ currentZip' = Trim(zipCode)
    /\ search' = [IdleSearch EXCEPT !.pc = "hud", !.zip = Trim(zipCode),
                                    !.query = NormalizeZip(Trim(zipCode))]
    /\ resolved' = NotResolved
    /\ event' = NoEvent
    /\ used' = [used EXCEPT !.searches = @ + 1]
    /\ returned' = NoReturn
    /\ UNCHANGED <<expandedIndustries, selectedMetric, expanding, cache, calls,
                   firstStored>>

\* the user puts a ZIP code into the input and submits the form, in one
\* step
HandleSearch(zipCode) ==
    /\ used.searches < MaxSearches
    /\ onSubmit(zipCode)
    /\ zipCodeState' = zipCode

\* the user edits the input: value is the value of the element after the edit
HandleChange(value) ==
    /\ zipCodeState' = onChange(value)
    /\ event' = NoEvent
    /\ returned' = NoReturn
    /\ UNCHANGED <<isSearching, employerData, currentZip, error,
                   expandedIndustries, selectedMetric, search, expanding,
                   resolved, used, cache, calls, firstStored>>

\* the user submits the form with what the input holds
HandleSubmit ==
    /\ used.searches < MaxSubmits
    /\ onSubmit(zipCodeState)
    /\ UNCHANGED zipCodeState

\* a step of the search that does not end it
Waiting(s) ==
    /\ search' = s
    /\ returned' = NoReturn
    /\ UNCHANGED <<isSearching, employerData, selectedMetric, zipCodeState, currentZip, error,
                   expandedIndustries, expanding, used, cache, calls,
                   firstStored>>

\* fetchEmploymentDataForZip returns and handleSearch shows its records
Finish(s, last, response) ==
    /\ employerData' = withCountyTotals(s.sectorData, s.totals)
    /\ isSearching' = FALSE
    /\ search' = IdleSearch
    /\ event' = [NoEvent EXCEPT
                   !.kind = "searchDone", !.zip = s.zip, !.county = s.county,
                   !.sent = s.sent, !.sectorData = s.sectorData,
                   !.totals = s.totals, !.sectorDone = s.sectorDone,
                   !.totalsDone = s.totalsDone, !.last = last,
                   !.response = response,
                   !.ret = withCountyTotals(s.sectorData, s.totals)]
    /\ returned' = NoReturn
    /\ UNCHANGED <<selectedMetric, zipCodeState, currentZip, error, expandedIndustries, expanding,
                   resolved, used, cache, calls, firstStored>>

\* the response to the HUD request: the county is found and the two
\* fetches start, or fetchEmploymentDataForZip throws and handleSearch
\* shows the message
HudResponse ==
    /\ search.pc = "hud"
    /\ \E resp \in HudResponses :
         LET c == getCountyFromZip(search.zip, resp)
         IN  IF c.none
             THEN /\ error' = CountyNotFound
                  /\ isSearching' = FALSE
                  /\ search' = IdleSearch
                  /\ event' = [NoEvent EXCEPT
                                 !.kind = "searchFailed", !.zip = search.zip,
                                 !.hud = resp, !.via = c.via,
                                 !.sent = search.sent]
                  /\ returned' = NoReturn
                  /\ UNCHANGED <<employerData, selectedMetric, zipCodeState, currentZip,
                                 expandedIndustries, expanding, resolved,
                                 used, cache, calls, firstStored>>
             ELSE /\ Waiting([search EXCEPT
                                !.pc = "census", !.county = c.county,
                                !.idx = 1,
                                !.sent = startFetches(c.county)])
                  /\ resolved' = [found |-> TRUE, zip |-> search.zip,
                                  county |-> c.county]
                  /\ event' = [NoEvent EXCEPT
                                 !.kind = "county", !.zip = search.zip,
                                 !.hud = resp, !.via = c.via,
                                 !.county = c.county]

\* the response to the sector query in flight
SectorResponse ==
    /\ search.pc = "census"
    /\ ~search.sectorDone
    /\ \E resp \in SectorResponsesOf(search.idx) :
         LET sectorData == fetchCountySectorData(naicsCodes[search.idx], resp)
             s == fetchEmploymentByCounty(search, sectorData)
         IN  IF allSettled(s.sectorDone, s.totalsDone)
             THEN Finish(s, "sectors", resp.kind)
             ELSE /\ Waiting(s)
                  /\ event' = [NoEvent EXCEPT
                                 !.kind = "sector", !.last = "sectors",
                                 !.response = resp.kind,
                                 !.naicsCode = naicsCodes[search.idx],
                                 !.ret = sectorData]
                  /\ UNCHANGED resolved

\* the response to the county totals request
TotalsResponse ==
    /\ search.pc = "census"
    /\ ~search.totalsDone
    /\ \E resp \in TotalsResponses :
         LET countyTotals == fetchCountyTotals(resp)
             s == [search EXCEPT !.totalsDone = TRUE, !.totals = countyTotals]
         IN  IF allSettled(s.sectorDone, s.totalsDone)
             THEN Finish(s, "totals", resp.kind)
             ELSE /\ Waiting(s)
                  /\ event' = [NoEvent EXCEPT
                                 !.kind = "totals", !.last = "totals",
                                 !.response = resp.kind,
                                 !.totals = countyTotals]
                  /\ UNCHANGED resolved

---------------------------------------------------------------------------
(* EmployerResults and App: expanding and collapsing a row *)

\* MetricType
Metrics == {"employees", "establishments", "payroll"}

getMetricValue(employer, metric) ==
    CASE metric = "employees" -> employer.employees
      [] metric = "establishments" -> employer.establishments
      [] metric = "payroll" -> employer.payroll
      [] OTHER -> employer.employees

\* Array.prototype.sort((a, b) => getMetricValue(b) - getMetricValue(a)),
\* which is stable
RECURSIVE InsertByMetric(_, _, _)
InsertByMetric(item, sorted, metric) ==
    IF sorted = <<>> THEN <<item>>
    ELSE IF getMetricValue(Head(sorted), metric) >= getMetricValue(item, metric)
         THEN <<Head(sorted)>> \o InsertByMetric(item, Tail(sorted), metric)
         ELSE <<item>> \o sorted

RECURSIVE SortByMetric(_, _)
SortByMetric(items, metric) ==
    IF items = <<>> THEN <<>>
    ELSE InsertByMetric(items[Len(items)],
                        SortByMetric(SubSeq(items, 1, Len(items) - 1), metric),
                        metric)

\* sortedData of EmployerResults, ordered by employees whatever the metric
sortedDataByEmployees(data, metric) == SortByEmployees(data)

\* sortedData of EmployerResults
sortedData(data, metric) == SortByMetric(data, metric)

\* top10Data of EmployerResults: the rows displayed
top10Data(data, metric) ==
    SubSeq(sortedData(data, metric), 1, Min(10, Len(data)))

\* getStateCountyFromLocation: the state and county the expand buttons pass
\* to handleExpandIndustry (its argument, the location, is not used)
getStateCountyFromLocation(zipCode) ==
    IF zipCode \in DOMAIN zipToStateCounty
    THEN zipToStateCounty[zipCode]
    ELSE County(<<"2", "5">>, <<"0", "1", "7">>)

\* canExpand of a sub-industry row
canExpand(subIndustry) == subIndustry.level < 4

\* the codes of the rows whose expand button is rendered and enabled
ExpandButtons ==
    LET top == top10Data(employerData, selectedMetric)
    IN  { top[i].naicsCode :
            i \in { j \in 1..Len(top) : ~top[j].isLoadingSubIndustries } }
        \cup
        UNION { { top[i].subIndustries[k].naicsCode :
                    k \in { l \in 1..Len(top[i].subIndustries) :
                              /\ canExpand(top[i].subIndustries[l])
                              /\ ~top[i].subIndustries[l].isLoadingSubIndustries } } :
                i \in { j \in 1..Len(top) :
                          top[j].naicsCode \in expandedIndustries } }

\* { ...item, field: value, ... }
Spread(item, fields) ==
    [f \in DOMAIN item |-> IF f \in DOMAIN fields THEN fields[f] ELSE item[f]]

\* prev.map(...) without the tests of the code: the fields are set in
\* every row
MapRowsWithoutTest(prev, naicsCode, fields) ==
    [i \in 1..Len(prev) |-> Spread(prev[i], fields)]

\* prev.map(...) of the four setEmployerData calls of handleExpandIndustry:
\* the fields are set in the row with the code, or else in the
\* sub-industries with the code
MapRows(prev, naicsCode, fields) ==
    [i \in 1..Len(prev) |->
        IF prev[i].naicsCode = naicsCode THEN Spread(prev[i], fields)
        ELSE [prev[i] EXCEPT !.subIndustries =
                [k \in 1..Len(prev[i].subIndustries) |->
                    IF prev[i].subIndustries[k].naicsCode = naicsCode
                    THEN Spread(prev[i].subIndustries[k], fields)
                    ELSE prev[i].subIndustries[k]]]]

\* the fields set by the collapse branch
Collapsed == [subIndustries |-> <<>>, isExpanded |-> FALSE]

\* the fields set by the expand branch before fetchSubIndustries is called
Loading == [isLoadingSubIndustries |-> TRUE, isExpanded |-> TRUE]

\* employerData.find(item => item.naicsCode === naicsCode) over the rows
\* of the render the handler was created in, and the totals read from it
firstItemTotals(data, naicsCode) ==
    IF \E i \in 1..Len(data) : data[i].naicsCode = naicsCode
    THEN data[CHOOSE i \in 1..Len(data) :
                /\ data[i].naicsCode = naicsCode
                /\ \A j \in 1..(i - 1) : data[j].naicsCode # naicsCode].totals
    ELSE NoTotals

enrichedSubIndustries(subIndustries, totals) ==
    [i \in 1..Len(subIndustries) |-> [subIndustries[i] EXCEPT !.totals = totals]]

\* A handleExpandIndustry call waiting in fetchSubIndustries.  pc is
\* "search" (getChildCodes waits in searchChildCodes, call is its state) or
\* "child" (the statistics query for childCodes[idx] is in flight); state
\* and county are the arguments of the handler, firstTotals the totals of
\* firstItem, results the local variable of fetchSubIndustries, sent the
\* Census statistics requests sent so far.
Expansion(naicsCode, c, totals, call) ==
    [naicsCode |-> naicsCode, state |-> c.state, county |-> c.county,
     firstTotals |-> totals, pc |-> "search", call |-> call,
     childCodes |-> <<>>, idx |-> 0, results |-> <<>>, sent |-> <<>>]

\* the setEmployerData of line 131: the sub-industries, with the totals of
\* firstItem, are attached to the row
attachSubIndustries(prev, x, subIndustries) ==
    MapRows(prev, x.naicsCode,
            [subIndustries |-> enrichedSubIndustries(subIndustries, x.firstTotals),
             isLoadingSubIndustries |-> FALSE])

\* fetchSubIndustries returns to handleExpandIndustry
Expanded(x, subIndustries, response) ==
    /\ employerData' = attachSubIndustries(employerData, x, subIndustries)
    /\ event' = [NoEvent EXCEPT !.kind = "expanded",
                                !.naicsCode = x.naicsCode,
                                !.totals = x.firstTotals,
                                !.response = response,
                                !.sent = x.sent,
                                !.ret = subIndustries]

\* fetchSubIndustries from the return of getChildCodes: nothing to fetch,
\* or the statistics query for the first child is sent
fetchSubIndustries(x, childCodes) ==
    [x EXCEPT !.pc = IF Len(childCodes) = 0 THEN "done" ELSE "child",
              !.call = IdleCall,
              !.childCodes = childCodes,
              !.idx = IF Len(childCodes) = 0 THEN 0 ELSE 1,
              !.sent = IF Len(childCodes) = 0 THEN <<>>
                       ELSE << Request(childCodes[1].code,
                                       County(x.state, x.county)) >>]

\* the loop of fetchSubIndustries without the try/catch of the query: a
\* query that brings nothing ends the loop
fetchSubIndustriesLoopUntilEmpty(x, childData) ==
    IF x.idx < Len(x.childCodes) /\ childData # <<>>
    THEN [x EXCEPT !.results = @ \o childData,
                   !.idx = @ + 1,
                   !.sent = Append(@, Request(x.childCodes[x.idx + 1].code,
                                              County(x.state, x.county)))]
    ELSE [x EXCEPT !.results = @ \o childData, !.pc = "done"]

\* the loop of fetchSubIndustries from the return of the query it waits
\* for: the next child is queried, or the loop ends
fetchSubIndustriesLoop(x, childData) ==
    IF x.idx < Len(x.childCodes)
    THEN [x EXCEPT !.results = @ \o childData,
                   !.idx = @ + 1,
                   !.sent = Append(@, Request(x.childCodes[x.idx + 1].code,
                                              County(x.state, x.county)))]
    ELSE [x EXCEPT !.results = @ \o childData, !.pc = "done"]

\* the rest of the handler after getChildCodes returned
AfterChildCodes(old, x) ==
    IF x.pc = "done"
    THEN /\ Expanded(x, <<>>, "")
         /\ expanding' = expanding (-) old
    ELSE /\ employerData' = employerData
         /\ event' = NoEvent
         /\ expanding' = (expanding (-) old) (+) SetToBag({x})

\* the user clicks the button of a row: handleExpandIndustry up to its
\* first request (there is none when the row is collapsed, and none when
\* the children are cached and empty)
HandleExpandIndustry(naicsCode) ==
    /\ naicsCode \in ExpandButtons
    /\ used.expands < MaxExpands
    /\ used' = [used EXCEPT !.expands = @ + 1]
    /\ UNCHANGED <<isSearching, selectedMetric, zipCodeState, currentZip, error, search, resolved, calls,
                   cache, firstStored>>
    /\ IF naicsCode \in expandedIndustries
       THEN /\ expandedIndustries' = expandedIndustries \ {naicsCode}
            /\ employerData' = MapRows(employerData, naicsCode, Collapsed)
            /\ event' = [NoEvent EXCEPT !.kind = "collapse",
                                        !.naicsCode = naicsCode]
            /\ returned' = NoReturn
            /\ UNCHANGED expanding
       ELSE LET c == getStateCountyFromLocation(currentZip)
                r == getChildCodes(naicsCode)
                x == Expansion(naicsCode, c,
                               firstItemTotals(employerData, naicsCode),
                               r.call)
                y == IF r.hit THEN fetchSubIndustries(x, r.ret) ELSE x
                loading == MapRows(employerData, naicsCode, Loading)
            IN  /\ expandedIndustries' = expandedIndustries \cup {naicsCode}
                /\ returned' = IF r.hit
                               THEN Return("children", naicsCode, TRUE, r.ret, 0)
                               ELSE NoReturn
                /\ employerData' =
                       IF y.pc = "done"
                       THEN attachSubIndustries(loading, y, <<>>)
                       ELSE loading
                /\ expanding' = IF y.pc = "done" THEN expanding
                                ELSE expanding (+) SetToBag({y})
                /\ event' = [NoEvent EXCEPT !.kind = "expand",
                                            !.naicsCode = naicsCode,
                                            !.zip = currentZip,
                                            !.county = County(c.state, c.county)]

\* handleExpandIndustry from the return r of searchChildCodes for the
\* response to the search term its getChildCodes call waits for
AfterSearchChildCodes(x, r) ==
    /\ IF r.done
       THEN /\ cache' = getChildCodesStore(x.call.arg, r.ret)
            /\ firstStored' = Remember(firstStored, ChildrenKey(x.call.arg), r.ret)
            /\ returned' = [Return("children", x.call.arg, FALSE, r.ret,
                                   r.call.nreq) EXCEPT !.ok = r.call.ok]
            /\ AfterChildCodes(SetToBag({x}), fetchSubIndustries(x, r.ret))
       ELSE /\ expanding' = (expanding (-) SetToBag({x}))
                                (+) SetToBag({[x EXCEPT !.call = r.call]})
            /\ returned' = NoReturn
            /\ event' = NoEvent
            /\ UNCHANGED <<cache, firstStored, employerData>>
    /\ UNCHANGED <<isSearching, selectedMetric, zipCodeState, currentZip, error,
                   expandedIndustries, search, resolved, used, calls>>

\* the response to the search term the getChildCodes call of an expansion
\* waits for
ExpandSearchResponse(x) ==
    /\ x.pc = "search"
    /\ \E r \in { searchChildCodes(x.call, resp) : resp \in NaicsResponses } :
         AfterSearchChildCodes(x, r)

\* the response to the statistics query for a child code
ChildResponse(x) ==
    /\ x.pc = "child"
    /\ \E resp \in SectorResponses :
         LET childData == fetchCountySectorData(x.childCodes[x.idx].code, resp)
             y == fetchSubIndustriesLoop(x, childData)
         IN  IF y.pc = "done"
             THEN /\ Expanded(y, sectorResult(y.results), resp.kind)
                  /\ expanding' = expanding (-) SetToBag({x})
             ELSE /\ expanding' = (expanding (-) SetToBag({x}))
                                      (+) SetToBag({y})
                  /\ event' = [NoEvent EXCEPT
                                 !.kind = "child", !.response = resp.kind,
                                 !.naicsCode = x.naicsCode,
                                 !.ret = childData]
                  /\ UNCHANGED employerData
    /\ returned' = NoReturn
    /\ UNCHANGED <<isSearching, selectedMetric, zipCodeState, currentZip, error, expandedIndustries,
                   search, resolved, used, cache, calls, firstStored>>

\* a number that is not an integer: finite is FALSE for Infinity and NaN,
\* the value is num / den otherwise
Number(n) == [finite |-> TRUE, num |-> n, den |-> 1]

\* the operator / on two integers
Quotient(a, b) == [finite |-> b # 0, num |-> a, den |-> IF b = 0 THEN 1 ELSE b]

\* the operator * of a number and an integer
Times(q, k) == [q EXCEPT !.num = @ * k]

\* countyTotal of getMetricPercentage: the total of the first row of the
\* data for the metric, 0 when it is missing
countyTotalOf(firstItem, metric) ==
    CASE metric = "employees" ->
           IF firstItem.totals.defined THEN firstItem.totals.employees ELSE 0
      [] metric = "establishments" ->
           IF firstItem.totals.defined THEN firstItem.totals.establishments ELSE 0
      [] metric = "payroll" ->
           IF firstItem.totals.defined THEN firstItem.totals.payroll ELSE 0
      [] OTHER -> 0

\* getMetricPercentage without the test countyTotal > 0
getMetricPercentageUnguarded(data, metric, value) ==
    IF Len(data) = 0 THEN Number(0)
    ELSE Times(Quotient(value, countyTotalOf(data[1], metric)), 100)

getMetricPercentage(data, metric, value) ==
    IF Len(data) = 0 THEN Number(0)
    ELSE IF countyTotalOf(data[1], metric) > 0
         THEN Times(Quotient(value, countyTotalOf(data[1], metric)), 100)
         ELSE Number(0)

\* the percentages displayed with the rows
percentages(data, metric, rows) ==
    [i \in 1..Len(rows) |->
        getMetricPercentage(data, metric, getMetricValue(rows[i], metric))]

\* the user selects a metric: handleMetricChange, and the rows that
\* EmployerResults then displays
HandleMetricChange(metric) ==
    /\ employerData # <<>>
    /\ selectedMetric' = metric
    /\ event' = [NoEvent EXCEPT
                   !.kind = "metric",
                   !.ret = top10Data(employerData, metric),
                   !.percent = percentages(employerData, metric,
                                           top10Data(employerData, metric))]
    /\ returned' = NoReturn
    /\ UNCHANGED <<isSearching, employerData, currentZip, error, zipCodeState,
                   expandedIndustries, search, expanding, resolved, used,
                   cache, calls, firstStored>>

\* what EmployerResults renders for its data and zipCode props: the 'No
\* Data Found' panel with the ZIP code, or the panel of results
EmployerResults(data, zipCode) ==
    IF Len(data) = 0
    THEN [panel |-> "No Data Found", zipCode |-> zipCode]
    ELSE [panel |-> "results", zipCode |-> zipCode]

\* the Results part of what App renders: EmployerResults when there is data,
\* nothing otherwise
Results ==
    IF Len(employerData) > 0
    THEN EmployerResults(employerData, currentZip)
    ELSE [panel |-> "", zipCode |-> <<>>]

---------------------------------------------------------------------------
(* Specifications *)

Init ==
    /\ cache = <<>>
    /\ calls = EmptyBag
    /\ firstStored = <<>>
    /\ returned = NoReturn
    /\ isSearching = FALSE
    /\ employerData = <<>>
    /\ currentZip = <<>>
    /\ error = ""
    /\ expandedIndustries = {}
    /\ selectedMetric = "employees"
    /\ zipCodeState = <<>>
    /\ search = IdleSearch
    /\ expanding = EmptyBag
    /\ resolved = NotResolved
    /\ event = NoEvent
    /\ used = [searches |-> 0, expands |-> 0]

\* the results of fetchEmploymentByCounty when the queries for the first
\* Len(bodies) codes bring the bodies and the others bring nothing
RECURSIVE ResultsOf(_, _)
ResultsOf(bodies, idx) ==
    IF idx > Len(bodies) THEN <<>>
    ELSE fetchCountySectorData(naicsCodes[idx],
                               [kind |-> "rows", rows |-> bodies[idx]])
         \o ResultsOf(bodies, idx + 1)

\* the bodies that bring a record
DataBodies == { b \in SectorBodies : SectorRows(b, naicsCodes[1]) # <<>> }

\* the application after a search of ZIP code 02459 has returned: up to
\* MaxRows sectors of the county have data
InitDisplay ==
    /\ cache = <<>>
    /\ calls = EmptyBag
    /\ firstStored = <<>>
    /\ returned = NoReturn
    /\ isSearching = FALSE
    /\ \E n \in 0..MaxRows :
         \E bodies \in [1..n -> DataBodies] :
           \E countyTotals \in { fetchCountyTotals(resp) : resp \in TotalsResponses } :
             employerData = withCountyTotals(sectorResult(ResultsOf(bodies, 1)),
                                             countyTotals)
    /\ currentZip = <<"0", "2", "4", "5", "9">>
    /\ error = ""
    /\ expandedIndustries = {}
    /\ selectedMetric = "employees"
    /\ zipCodeState = <<"0", "2", "4", "5", "9">>
    /\ search = IdleSearch
    /\ expanding = EmptyBag
    /\ resolved = [found |-> TRUE, zip |-> <<"0", "2", "4", "5", "9">>,
                   county |-> zipToCounty[<<"0", "2", "4", "5", "9">>]]
    /\ event = NoEvent
    /\ used = [searches |-> 1, expands |-> 0]

\* the display of a result under the three metrics
NextDisplay == \E metric \in Metrics : HandleMetricChange(metric)

SpecDisplay == InitDisplay /\ [][NextDisplay]_vars

\* the child-code lookups of NAICSApiService, called by overlapping callers
NextNaics ==
    \/ \E p \in ParentCodes : GetChildCodes(p)
    \/ \E call \in BagToSet(calls) : SearchResponse(call)

SpecNaics == Init /\ [][NextNaics]_vars

\* the code list of NAICSApiService
NextCodes ==
    \/ \E y \in Years : FetchNAICSCodes(y)
    \/ \E call \in BagToSet(calls) : ChartResponse(call)
    \/ \E call \in BagToSet(calls) : SweepResponse(call)

SpecCodes == Init /\ [][NextCodes]_vars

\* the searches of the application
NextSearch ==
    \/ \E zipCode \in Zips : HandleSearch(zipCode)
    \/ HudResponse
    \/ SectorResponse
    \/ TotalsResponse

SpecSearch == Init /\ [][NextSearch]_vars

\* the application: searches, expansions and collapses
\* what the value of the input element can be after an edit: typed or
\* pasted text with digits, letters and blanks, of up to six characters
TypedValues ==
    { <<>>,
      <<"0", "2", "4", "5">>,
      <<"0", "2", "4", "5", "9">>,
      <<"0", "2", "4", "5", "9", "1">>,
      <<"0", "2", "4", "5", "a">>,
      <<" ", "2", "4", "5", "9">>,
      <<"9", "9", "5", "x", "0", "1">>,
      <<"a", "b">> }

\* the search form: edits of the input and submits, and the searches they
\* start
NextZip ==
    \/ \E value \in TypedValues : HandleChange(value)
    \/ HandleSubmit
    \/ HudResponse
    \/ SectorResponse
    \/ TotalsResponse

SpecZip == Init /\ [][NextZip]_vars

\* the application after a search of ZIP code 02459, submitted from the
\* search form, has returned a row for the first sector with the totals of
\* the county, and the row has been expanded: the lookup found the child
\* code 111, which the cache holds, and the statistics query for it brought
\* a record
InitForm ==
    LET countyTotals ==
            fetchCountyTotals([kind |-> "rows",
                               rows |-> << Cells(<<"2", "0">>, <<"S">>, <<"9">>) >>])
        rows == [kind |-> "rows", rows |-> << Cells(<<"5">>, <<"2">>, <<"3">>) >>]
        childCodes == << [code |-> c111, title |-> TitleOr(<<>>, c111)] >>
        subIndustries == sectorResult(fetchCountySectorData(c111, rows))
    IN
    /\ cache = MapSet(<<>>, ChildrenKey(c11), childCodes)
    /\ calls = EmptyBag
    /\ firstStored = MapSet(<<>>, ChildrenKey(c11), childCodes)
    /\ returned = NoReturn
    /\ isSearching = FALSE
    /\ employerData =
         MapRows(
           withCountyTotals(sectorResult(fetchCountySectorData(c11, rows)),
                            countyTotals),
           c11,
           [isExpanded |-> TRUE, isLoadingSubIndustries |-> FALSE,
            subIndustries |-> enrichedSubIndustries(subIndustries, countyTotals)])
    /\ currentZip = <<"0", "2", "4", "5", "9">>
    /\ error = ""
    /\ expandedIndustries = {c11}
    /\ selectedMetric = "employees"
    /\ zipCodeState = <<"0", "2", "4", "5", "9">>
    /\ search = IdleSearch
    /\ expanding = EmptyBag
    /\ resolved = [found |-> TRUE, zip |-> <<"0", "2", "4", "5", "9">>,
                   county |-> zipToCounty[<<"0", "2", "4", "5", "9">>]]
    /\ event = NoEvent
    /\ used = [searches |-> 1, expands |-> 1]

\* the rows of the result expanded and collapsed, and the ZIP code searched
\* again
NextForm ==
    \/ HandleSubmit
    \/ HudResponse
    \/ SectorResponse
    \/ TotalsResponse
    \/ \E naicsCode \in ExpandButtons : HandleExpandIndustry(naicsCode)
    \/ \E x \in BagToSet(expanding) : ExpandSearchResponse(x)
    \/ \E x \in BagToSet(expanding) : ChildResponse(x)

SpecForm == InitForm /\ [][NextForm]_vars

Next ==
    \/ \E zipCode \in Zips : HandleSearch(zipCode)
    \/ HudResponse
    \/ SectorResponse
    \/ TotalsResponse
    \/ \E naicsCode \in ExpandButtons : HandleExpandIndustry(naicsCode)
    \/ \E x \in BagToSet(expanding) : ExpandSearchResponse(x)
    \/ \E x \in BagToSet(expanding) : ChildResponse(x)

Spec == Init /\ [][Next]_vars

\* a response comes to the search term a lookup waits for
LookupResponse ==
    \E x \in BagToSet(expanding) :
      /\ x.pc = "search"
      /\ \E resp \in NaicsResponses :
           AfterSearchChildCodes(x, searchChildCodes(x.call, resp))

\* the search of ZIP code 02459 and one click on a row of its result
NextLive ==
    \/ HandleSearch(<<"0", "2", "4", "5", "9">>)
    \/ HudResponse
    \/ SectorResponse
    \/ TotalsResponse
    \/ \E naicsCode \in ExpandButtons :
         used.expands < MaxLiveExpands /\ HandleExpandIndustry(naicsCode)
    \/ \E x \in BagToSet(expanding) : ExpandSearchResponse(x)
    \/ \E x \in BagToSet(expanding) : ChildResponse(x)

\* every HTTP request completes: the response to a request in flight comes
Completes ==
    /\ WF_vars(HudResponse)
    /\ WF_vars(SectorResponse)
    /\ WF_vars(TotalsResponse)
    /\ WF_vars(LookupResponse)
    /\ WF_vars(\E x \in BagToSet(expanding) : ChildResponse(x))

SpecLive == Init /\ [][NextLive]_vars /\ Completes

---------------------------------------------------------------------------
(* Claims about the search and the expansion of a row *)

\* C1: every expansion of a row of a search fetches the sub-industries of
\* the county the search resolved: the state and county that
\* handleExpandIndustry passes to fetchSubIndustries are the ones
\* fetchEmploymentDataForZip found for the displayed ZIP code.
C1_ExpansionFetchesResolvedCounty ==
    event.kind = "expand" =>
        /\ resolved.found
        /\ resolved.zip = event.zip
        /\ event.county = resolved.county

\* C2: the county is the one of the HUD lookup whenever that lookup
\* succeeds (a result whose geoid has 5 characters); the static table is
\* consulted only when the lookup fails; when neither gives a county the
\* search fails with the ApiError message and no Census statistics request
\* is sent, and none is sent before the county is known.
C2_HudElseStaticFallback ==
    /\ search.pc = "hud" => search.sent = <<>>
    /\ event.kind \in {"county", "searchFailed"} =>
         LET geoid == event.hud.geoid
             hudSucceeds == event.hud.kind = "result" /\ Len(geoid) = 5
             inTable == event.zip \in DOMAIN zipToCounty
         IN  /\ hudSucceeds =>
                   /\ event.kind = "county"
                   /\ event.via = "hud"
                   /\ event.county = [state |-> SubSeq(geoid, 1, 2),
                                      county |-> SubSeq(geoid, 3, 5)]
             /\ (~hudSucceeds /\ inTable) =>
                   /\ event.kind = "county"
                   /\ event.via = "fallback"
                   /\ event.county = zipToCounty[event.zip]
             /\ (~hudSucceeds /\ ~inTable) =>
                   /\ event.kind = "searchFailed"
                   /\ error = "Failed to fetch employment data: Could not find county for ZIP code"
                   /\ ~isSearching
                   /\ event.sent = <<>>
                   /\ search.pc = "idle"
                   /\ search.sent = <<>>

\* a ZIP code of the table whose HUD lookup failed got the table's county
C2_Witness ==
    /\ event.kind = "county"
    /\ event.hud.kind \in {"notok", "noresult"}
    /\ event.via = "fallback"
    /\ event.county = [state |-> <<"2", "5">>, county |-> <<"0", "1", "7">>]
    /\ search.pc = "census"

\* the sector queries among the Census statistics requests
SectorQueries(sent) == SelectSeq(sent, LAMBDA r : r.NAICS2017 # <<"0", "0">>)

\* C3: a search whose county was resolved sends one statistics query for
\* each of the 24 codes of the taxonomy list, in list order and for the
\* resolved county, whatever the queries return: while the loop runs the
\* queries sent are the first idx codes, and when the search returns they
\* are the 24 codes.
C3_OneQueryPerCodeInOrder ==
    /\ search.pc = "census" =>
         LET q == SectorQueries(search.sent)
         IN  /\ Len(q) = IF search.sectorDone THEN 24 ELSE search.idx
             /\ \A i \in 1..Len(q) :
                  q[i] = [NAICS2017 |-> naicsCodes[i],
                          state |-> resolved.county.state,
                          county |-> resolved.county.county]
    /\ event.kind = "searchDone" =>
         LET q == SectorQueries(event.sent)
         IN  /\ Len(q) = 24
             /\ \A i \in 1..24 :
                  q[i] = [NAICS2017 |-> naicsCodes[i],
                          state |-> resolved.county.state,
                          county |-> resolved.county.county]

\* a search returned one record: a query brought data, the others nothing
C3_Witness ==
    /\ event.kind = "searchDone"
    /\ Len(SectorQueries(event.sent)) = 24
    /\ Len(event.ret) = 1
    /\ event.ret[1].naicsCode = <<"2", "1">>

\* C4: every record returned by fetchEmploymentDataForZip carries the three
\* values that the search's one fetchCountyTotals call returned, so all the
\* records of a result carry the same county totals.
C4_RecordsCarryCountyTotals ==
    event.kind = "searchDone" =>
        /\ Cardinality({ i \in 1..Len(event.sent) :
                           event.sent[i].NAICS2017 = <<"0", "0">> }) = 1
        /\ event.totals.defined
        /\ \A i \in 1..Len(event.ret) :
             event.ret[i].totals = event.totals
        /\ employerData = event.ret

\* a search returned two records with the totals of the county
C4_Witness ==
    /\ event.kind = "searchDone"
    /\ Len(event.ret) = 2
    /\ event.totals.employees = 20
    /\ event.totals.payroll = 9000
    /\ event.ret[1].employees = 9

\* C5: the sector queries and the county totals request run as two parallel
\* fetches; fetchEmploymentDataForZip returns only after both have
\* completed, nothing is displayed while one of them is pending, and the
\* result is the sectors with the totals whichever completed last.
C5_ReturnsAfterBothFetches ==
    /\ search.pc = "census" => (isSearching /\ employerData = <<>>)
    /\ event.kind = "searchDone" =>
         /\ event.sectorDone
         /\ event.totalsDone
         /\ event.last \in {"sectors", "totals"}
         /\ Len(event.ret) = Len(event.sectorData)
         /\ \A i \in 1..Len(event.ret) :
              event.ret[i] = [event.sectorData[i] EXCEPT !.totals = event.totals]

\* the county totals arrived after the last of the 24 sector queries
C5_Witness ==
    /\ event.kind = "searchDone"
    /\ event.last = "totals"
    /\ event.ret # <<>>
    /\ event.totals.employees = 20

---------------------------------------------------------------------------
(* Claims about failing requests of a search *)

\* the response kinds of a request that failed: fetch rejected, the status
\* was not OK, the body was blank, the body did not parse
FailureKinds == {"reject", "notok", "blank", "badjson"}

\* the rows of a list, as a set
RowsOf(list) == { list[i] : i \in 1..Len(list) }

\* C14: a failed sector query is isolated.  In a step in which the query
\* for a code fails, the code contributes no record (the results are
\* unchanged), no error is shown, and either the query for the next code
\* is sent, or the code was the last and the search goes on to return the
\* records of the other codes (at once when the totals are there).
C14_FailedSectorQueryIsIsolated ==
    [][ (/\ search.pc = "census"
         /\ event'.kind \in {"sector", "searchDone"}
         /\ event'.last = "sectors"
         /\ event'.response \in FailureKinds)
        =>
        /\ error' = ""
        /\ event'.kind = "sector" =>
             /\ search'.pc = "census"
             /\ search'.results = search.results
             /\ IF search.idx < 24
                THEN /\ ~search'.sectorDone
                     /\ search'.sent =
                          Append(search.sent,
                                 [NAICS2017 |-> naicsCodes[search.idx + 1],
                                  state |-> search.county.state,
                                  county |-> search.county.county])
                ELSE /\ search'.sectorDone
                     /\ RowsOf(search'.sectorData) = RowsOf(search.results)
                     /\ Len(search'.sectorData) = Len(search.results)
        /\ event'.kind = "searchDone" =>
             /\ search.idx = 24
             /\ ~isSearching'
             /\ Len(employerData') = Len(search.results)
             /\ \A i \in 1..Len(employerData') :
                  \E j \in 1..Len(search.results) :
                    employerData'[i] =
                      [search.results[j] EXCEPT !.totals = search.totals]
      ]_vars

\* the query for the second code fails after the first brought a record,
\* and the query for the third code is in flight
C14_Witness ==
    /\ event.kind = "sector"
    /\ event.response = "notok"
    /\ event.naicsCode = <<"2", "1">>
    /\ Len(search.results) = 1
    /\ search.results[1].naicsCode = <<"1", "1">>
    /\ search.idx = 3

\* the totals of a county-totals request that failed
ZeroTotals == Totals(0, 0, 0)

\* C18: a failed county-totals request does not fail the search.  In a
\* step in which the totals request fails (fetch rejected, non-OK status,
\* blank or unparsable body, fewer than two rows) the totals are 0, 0 and
\* 0 and no error is shown; the search goes on when sector queries are
\* pending, and otherwise returns the sector records, each with the zero
\* totals.  A search that ends later with these totals returns every
\* sector record with the zero totals.
C18_FailedTotalsAreZero ==
    [][ /\ (/\ search.pc = "census"
            /\ event'.kind \in {"totals", "searchDone"}
            /\ event'.last = "totals"
            /\ event'.response # "rows")
           =>
           /\ error' = ""
           /\ event'.totals = ZeroTotals
           /\ event'.kind = "totals" =>
                /\ search'.pc = "census"
                /\ search'.totalsDone
                /\ search'.totals = ZeroTotals
                /\ search'.results = search.results
                /\ search'.sent = search.sent
           /\ event'.kind = "searchDone" =>
                /\ search.sectorDone
                /\ ~isSearching'
                /\ event'.ret = employerData'
                /\ Len(employerData') = Len(search.sectorData)
                /\ \A i \in 1..Len(employerData') :
                     employerData'[i] =
                       [search.sectorData[i] EXCEPT !.totals = ZeroTotals]
        /\ (/\ search.pc = "census"
            /\ search.totalsDone
            /\ search.totals = ZeroTotals
            /\ event'.kind = "searchDone")
           =>
           /\ error' = ""
           /\ Len(employerData') = Len(event'.sectorData)
           /\ \A i \in 1..Len(employerData') :
                employerData'[i] =
                  [event'.sectorData[i] EXCEPT !.totals = ZeroTotals]
      ]_vars

\* the totals request failed after the last sector query, and the search
\* returned a record with zero totals
C18_Witness ==
    /\ event.kind = "searchDone"
    /\ event.last = "totals"
    /\ event.response = "short"
    /\ ~isSearching
    /\ Len(employerData) >= 1
    /\ employerData[1].totals = ZeroTotals
    /\ employerData[1].employees > 0

---------------------------------------------------------------------------
(* Claims about the lists the service returns *)

\* the employees of a list do not increase along it
NonIncreasing(list) ==
    \A i \in 1..(Len(list) - 1) : list[i].employees >= list[i + 1].employees

\* C19: the list fetchEmploymentDataForZip returns to a search and the
\* list fetchSubIndustries returns to an expansion hold no record whose
\* employees, establishments and payroll are all 0, and their employees
\* are in non-increasing order.
C19_ReturnedListsFilteredAndSorted ==
    event.kind \in {"searchDone", "expanded"}
    =>
    /\ \A i \in 1..Len(event.ret) :
         event.ret[i].employees # 0
         \/ event.ret[i].establishments # 0
         \/ event.ret[i].payroll # 0
    /\ NonIncreasing(event.ret)

\* a search returned two records, the one of the later code first because
\* it has more employees
C19_Witness ==
    /\ event.kind = "searchDone"
    /\ Len(event.ret) = 2
    /\ event.ret[1].naicsCode = <<"2", "1">>
    /\ event.ret[2].naicsCode = <<"1", "1">>
    /\ event.ret[1].employees > event.ret[2].employees

---------------------------------------------------------------------------
(* Claims about the requests of a search *)

\* the responses that have come to the sector queries and to the totals
\* request of the search in progress
SectorAnswered ==
    IF search.pc # "census" THEN 0
    ELSE IF search.sectorDone THEN Len(naicsCodes) ELSE search.idx - 1

TotalsAnswered == IF search.pc = "census" /\ search.totalsDone THEN 1 ELSE 0

\* the Census statistics requests of the search that are in flight
SectorInFlight == Len(SectorQueries(search.sent)) - SectorAnswered

InFlight == Len(search.sent) - SectorAnswered - TotalsAnswered

\* C24: no Census statistics request is sent before the county is
\* resolved; the step that resolves the county sends the query for the
\* first code and the totals request; after that a sector query is sent
\* only in the step in which the response to the previous one arrives, and
\* it is the query for the next code; so at most one sector query and at
\* most two Census statistics requests are in flight.
C24_SectorQueriesOneAtATime ==
    /\ [] (/\ search.pc \in {"idle", "hud"} => search.sent = <<>>
           /\ SectorInFlight \in {0, 1}
           /\ InFlight \in {0, 1, 2})
    /\ [][ (search'.sent # search.sent /\ search'.pc = "census")
           =>
           IF search.pc = "hud"
           THEN /\ event'.kind = "county"
                /\ search'.sent =
                     << [NAICS2017 |-> naicsCodes[1],
                         state |-> search'.county.state,
                         county |-> search'.county.county],
                        [NAICS2017 |-> <<"0", "0">>,
                         state |-> search'.county.state,
                         county |-> search'.county.county] >>
           ELSE /\ search.pc = "census"
                /\ event'.kind = "sector"
                /\ event'.naicsCode = naicsCodes[search.idx]
                /\ SectorInFlight = 1
                /\ search'.sent =
                     Append(search.sent,
                            [NAICS2017 |-> naicsCodes[search.idx + 1],
                             state |-> search.county.state,
                             county |-> search.county.county])
         ]_vars

\* the third sector query and the totals request are in flight: two
\* sector queries were answered
C24_Witness ==
    /\ search.pc = "census"
    /\ search.idx = 3
    /\ ~search.totalsDone
    /\ Len(search.sent) = 4
    /\ InFlight = 2
    /\ event.kind = "sector"


\* C22: onSearch is invoked only with a string of exactly five decimal
\* digits, which is what the input holds, and never while a search is in
\* progress.  A step starts a search when it counts one more search; the
\* argument of onSearch is what the step stores in currentZip.
C22_SearchOnlyForFiveDigits ==
    [][ used'.searches # used.searches
        =>
        /\ ~isSearching
        /\ isSearching'
        /\ Len(currentZip') = 5
        /\ \A i \in 1..5 : currentZip'[i] \in Digits
        /\ currentZip' = zipCodeState
        /\ search'.zip = currentZip'
      ]_vars

\* a search of 02459 is in progress while the input holds four digits
C22_Witness ==
    /\ isSearching
    /\ currentZip = <<"0", "2", "4", "5", "9">>
    /\ zipCodeState = <<"0", "2", "4", "5">>
    /\ used.searches = 1


\* the value of a row under the selected metric
SelectedValue(row) ==
    IF selectedMetric = "establishments" THEN row.establishments
    ELSE IF selectedMetric = "payroll" THEN row.payroll
    ELSE row.employees

\* C11: for each of the three metrics the displayed list holds at most 10
\* rows (all of them when there are 10 or fewer), in non-increasing order
\* of the selected metric, each a row of the data, and no row left out has
\* a larger value of the selected metric than a displayed row.
C11_TopTenOfSelectedMetric ==
    event.kind = "metric" =>
        LET top == event.ret
            shown == { top[i] : i \in 1..Len(top) }
            rows == { employerData[i] : i \in 1..Len(employerData) }
        IN  /\ Len(top) <= 10
            /\ Len(top) = IF Len(employerData) < 10 THEN Len(employerData) ELSE 10
            /\ Cardinality(shown) = Len(top)
            /\ shown \subseteq rows
            /\ \A i \in 1..Len(top) : \A j \in i..Len(top) :
                 SelectedValue(top[i]) >= SelectedValue(top[j])
            /\ \A r \in rows \ shown : \A t \in shown :
                 SelectedValue(r) <= SelectedValue(t)

\* eleven rows under the metric establishments: one is left out, and the
\* displayed rows have different values
C11_Witness ==
    /\ event.kind = "metric"
    /\ selectedMetric = "establishments"
    /\ Len(employerData) = 11
    /\ Len(event.ret) = 10
    /\ event.ret[1].establishments > event.ret[10].establishments
    /\ event.ret[1].employees < event.ret[10].employees

\* the county total of the selected metric, 0 when it is missing
SelectedTotal ==
    IF ~employerData[1].totals.defined THEN 0
    ELSE IF selectedMetric = "establishments"
         THEN employerData[1].totals.establishments
    ELSE IF selectedMetric = "payroll" THEN employerData[1].totals.payroll
    ELSE employerData[1].totals.employees

\* C12: the percentage displayed with a row is 100 * value / county total
\* of the selected metric when that total is greater than 0, and 0 when the
\* total is 0 or missing; no division by zero happens (every percentage is
\* a finite number).
C12_PercentageOfCountyTotal ==
    event.kind = "metric" =>
        /\ Len(event.percent) = Len(event.ret)
        /\ \A i \in 1..Len(event.ret) :
             LET p == event.percent[i]
             IN  /\ p.finite
                 /\ p.den > 0
                 /\ IF SelectedTotal > 0
                    THEN /\ p.num = 100 * SelectedValue(event.ret[i])
                         /\ p.den = SelectedTotal
                    ELSE p.num = 0

\* rows with establishments in a county whose total of establishments is
\* 0 (suppressed) and whose total of employees is not: 0 percent
C12_Witness ==
    /\ event.kind = "metric"
    /\ selectedMetric = "establishments"
    /\ employerData[1].totals.employees = 20
    /\ employerData[1].totals.establishments = 0
    /\ event.ret[1].establishments = 2
    /\ event.percent[1] = [finite |-> TRUE, num |-> 0, den |-> 1]

\* C21: after a search that completes successfully with zero industry
\* records, the 'No Data Found' panel for the searched ZIP code is
\* displayed.
C21_NoDataFoundIsDisplayed ==
    (event.kind = "searchDone" /\ event.ret = <<>>)
    =>
    Results = [panel |-> "No Data Found", zipCode |-> event.zip]

---------------------------------------------------------------------------
(* Claims about the tree of rows *)

\* the sub-industries of a row are one digit longer than the row, start
\* with its code and have their length as level
DirectChildren(row) ==
    \A k \in 1..Len(row.subIndustries) :
        LET sub == row.subIndustries[k]
        IN  /\ Len(sub.naicsCode) = Len(row.naicsCode) + 1
            /\ SubSeq(sub.naicsCode, 1, Len(row.naicsCode)) = row.naicsCode
            /\ sub.level = Len(sub.naicsCode)

\* C13: drill-down adds one digit per step and stops at 4 digits: in every
\* state the sub-industries stored under a row with code P have a code of
\* length Len(P) + 1 that starts with P and a level equal to the length of
\* their code, an enabled expand button belongs to a row of fewer than 4
\* digits, and the tree holds no code longer than 4 digits.
C13_OneDigitPerStepUpToFour ==
    /\ \A i \in 1..Len(employerData) :
         LET row == employerData[i]
         IN  /\ row.level = Len(row.naicsCode)
             /\ Len(row.naicsCode) <= 4
             /\ DirectChildren(row)
             /\ \A k \in 1..Len(row.subIndustries) :
                  LET sub == row.subIndustries[k]
                  IN  /\ Len(sub.naicsCode) <= 4
                      /\ DirectChildren(sub)
                      /\ \A l \in 1..Len(sub.subIndustries) :
                           /\ Len(sub.subIndustries[l].naicsCode) <= 4
                           /\ sub.subIndustries[l].subIndustries = <<>>
    /\ \A naicsCode \in ExpandButtons : Len(naicsCode) < 4

\* a sector was expanded and one of its sub-industries too: the tree holds
\* a 4-digit row under a 3-digit row under a 2-digit row, beside another
\* sector
C13_Witness ==
    /\ Len(employerData) = 2
    /\ \E i \in 1..Len(employerData) :
         \E k \in 1..Len(employerData[i].subIndustries) :
           /\ employerData[i].subIndustries[k].naicsCode = <<"1", "1", "1">>
           /\ employerData[i].subIndustries[k].subIndustries # <<>>
           /\ employerData[i].subIndustries[k].subIndustries[1].naicsCode
                = <<"1", "1", "1", "1">>

\* C20: every sub-industry record of the tree, under a top-level row and
\* under a sub-industry of it, carries the county totals of the top-level
\* rows of the current search.
C20_SubIndustriesCarryCountyTotals ==
    \A i \in 1..Len(employerData) :
      \A k \in 1..Len(employerData[i].subIndustries) :
        LET sub == employerData[i].subIndustries[k]
        IN  /\ sub.totals = employerData[i].totals
            /\ \A m \in 1..Len(sub.subIndustries) :
                 sub.subIndustries[m].totals = employerData[i].totals

\* the rows of the tree: the top-level rows, their sub-industries and the
\* sub-industries of these
TreeRows ==
    LET top == RowsOf(employerData)
        subs == UNION { RowsOf(row.subIndustries) : row \in top }
    IN  top \cup subs \cup UNION { RowsOf(row.subIndustries) : row \in subs }

\* C23: in every reachable state the code of a row of the tree is in
\* expandedIndustries if and only if the isExpanded flag of the row is true.
C23_ExpandedSetMatchesFlags ==
    \A row \in TreeRows :
      (row.naicsCode \in expandedIndustries) <=> row.isExpanded

---------------------------------------------------------------------------
(* Claims about failing requests of an expansion *)

\* the rows and the sub-industries of the tree with a code
RowsWithCode(naicsCode) ==
    { employerData[i] : i \in { j \in 1..Len(employerData) :
                                  employerData[j].naicsCode = naicsCode } }
    \cup
    UNION { { employerData[i].subIndustries[k] :
                k \in { l \in 1..Len(employerData[i].subIndustries) :
                          employerData[i].subIndustries[l].naicsCode = naicsCode } } :
            i \in 1..Len(employerData) }

\* C16: when fetching the sub-industries of an expanded industry fails
\* (here: no request of the child-code lookup was answered with a body that
\* parsed), handleExpandIndustry sets the message 'Failed to fetch
\* sub-industries: ...' and the industry ends not expanded: its code is
\* removed from expandedIndustries and its row is neither expanded nor
\* loading.
C16_FailedExpansionIsUndone ==
    (/\ event.kind = "expanded"
     /\ returned.op = "children"
     /\ ~returned.hit
     /\ ~returned.ok)
    =>
    /\ error # ""
    /\ event.naicsCode \notin expandedIndustries
    /\ \A row \in RowsWithCode(event.naicsCode) :
         ~row.isExpanded /\ ~row.isLoadingSubIndustries

\* C17: fetchSubIndustries never fails.  When the child-code lookup fails
\* or finds no children, the list it returns is empty and no statistics
\* query is sent.  In a step in which the statistics query for a child
\* fails, the child contributes no record, no error is raised, and either
\* the query for the next child is sent, or the child was the last and the
\* records of the other children are returned, filtered and sorted.
C17_FetchSubIndustriesNeverFails ==
    /\ [] ((/\ returned.op = "children"
            /\ ~returned.hit
            /\ (~returned.ok \/ returned.ret = <<>>))
           =>
           /\ returned.ret = <<>>
           /\ event.kind = "expanded"
           /\ event.ret = <<>>
           /\ event.sent = <<>>)
    /\ [][ (/\ event'.kind \in {"child", "expanded"}
            /\ event'.response \in FailureKinds)
           =>
           /\ error' = error
           /\ \E x \in BagToSet(expanding) :
                /\ x.pc = "child"
                /\ x.naicsCode = event'.naicsCode
                /\ IF x.idx < Len(x.childCodes)
                   THEN /\ event'.kind = "child"
                        /\ event'.ret = <<>>
                        /\ expanding' =
                             (expanding (-) SetToBag({x})) (+)
                             SetToBag({[x EXCEPT
                                !.idx = @ + 1,
                                !.sent = Append(@,
                                   [NAICS2017 |-> x.childCodes[x.idx + 1].code,
                                    state |-> x.state,
                                    county |-> x.county])]})
                   ELSE /\ event'.kind = "expanded"
                        /\ event'.ret = sectorResult(x.results)
                        /\ event'.sent = x.sent
                        /\ Len(x.sent) = Len(x.childCodes)
                        /\ expanding' = expanding (-) SetToBag({x})
         ]_vars

\* the query for the first of two children failed, and the query for the
\* second child is in flight
C17_Witness ==
    /\ event.kind = "child"
    /\ event.response \in FailureKinds
    /\ \E x \in BagToSet(expanding) :
         /\ x.naicsCode = event.naicsCode
         /\ x.pc = "child"
         /\ Len(x.childCodes) >= 2
         /\ x.idx = 2
         /\ Len(x.sent) = 2
         /\ x.results = <<>>

---------------------------------------------------------------------------
(* Claims about termination *)

\* the requests the search in progress has sent: the county lookup and the
\* Census requests
SearchRequests ==
    IF search.pc = "idle" THEN 0 ELSE 1 + Len(search.sent)

\* the child-code lookups in progress
Lookups ==
    BagToSet(calls)
    \cup { x.call : x \in { y \in BagToSet(expanding) : y.pc = "search" } }

\* the search terms a lookup has requested
TermsSent(call) == SubSeq(searchStrategies(call.arg), 1, call.term)

\* no element of a list is in it twice
Distinct(list) ==
    \A i, j \in 1..Len(list) : i # j => list[i] # list[j]

\* C25 (as claimed): fetchEmploymentDataForZip sends at most 26 requests, a
\* child-code lookup at most 5, and no operation sends a request a second
\* time.
C25_NoRequestIsRepeated ==
    /\ SearchRequests <= 26
    /\ Distinct(search.sent)
    /\ \A call \in Lookups :
         call.pc = "search" =>
           /\ call.nreq <= 5
           /\ Distinct(TermsSent(call))

\* C25 (amended): provided every request completes, a search ends, after
\* 26 requests when the county was found and after the one county lookup
\* when it was not, and every expansion ends, its child-code lookup after
\* at most 5 search requests.  A failed request is never sent again in
\* reaction to the failure: each response, failed or not, is followed by
\* the request for the next code or the next term, and the requests of an
\* operation are distinct but for the fifth term of a lookup for a
\* two-digit parent, which is the parent code as the first term was.
C25_TerminatesWithinBounds ==
    /\ [] (/\ SearchRequests <= 26
           /\ Distinct(search.sent)
           /\ event.kind = "searchDone" => 1 + Len(event.sent) = 26
           /\ event.kind = "searchFailed" => event.sent = <<>>
           /\ \A call \in Lookups :
                call.pc = "search" =>
                  /\ call.nreq \in 1..5
                  /\ call.nreq = call.term
                  /\ call.input = searchStrategies(call.arg)[call.term]
                  /\ Distinct(SubSeq(TermsSent(call), 1, Min(4, call.term)))
                  /\ (call.term = 5 /\ Len(call.arg) = 2) =>
                       call.input = TermsSent(call)[1]
           /\ (returned.op = "children" /\ ~returned.hit) =>
                returned.nreq \in 1..5)
    /\ (search.pc # "idle") ~> (search.pc = "idle")
    /\ (expanding # EmptyBag) ~> (expanding = EmptyBag)

\* the lookup of an expansion ended after five requests, all of which
\* failed, and the expansion ended with it
C25_Witness ==
    /\ returned.op = "children"
    /\ ~returned.hit
    /\ ~returned.ok
    /\ returned.nreq = 5
    /\ event.kind = "expanded"
    /\ expanding = EmptyBag
    /\ search.pc = "idle"
    /\ employerData # <<>>

---------------------------------------------------------------------------
(* Claims about NAICSApiService *)

\* C6 (as claimed): once getChildCodes(P) has stored a list for P, every
\* later getChildCodes(P), which finds the key in the cache, returns that
\* list and sends no request.
C6_LaterCallsReturnStoredList ==
    (returned.op = "children" /\ returned.hit)
        => /\ returned.ret = firstStored[ChildrenKey(returned.arg)]
           /\ returned.nreq = 0

RECURSIVE CodeNum(_)
CodeNum(code) ==
    IF code = <<>> THEN 0
    ELSE 10 * CodeNum(SubSeq(code, 1, Len(code) - 1))
         + (CHOOSE n \in 0..9 : DigitOrd[code[Len(code)]] = n)

\* C8: every code of a list getChildCodes(P) returns is made of decimal
\* digits, is one character longer than P and starts with P; the list holds
\* no code twice and is in ascending order of the codes.
C8_ChildCodesAreDirectChildren ==
    returned.op = "children" =>
        LET P == returned.arg
            ret == returned.ret
        IN  /\ \A i \in 1..Len(ret) :
                 /\ \A j \in 1..Len(ret[i].code) : ret[i].code[j] \in Digits
                 /\ Len(ret[i].code) = Len(P) + 1
                 /\ SubSeq(ret[i].code, 1, Len(P)) = P
            /\ \A i, j \in 1..Len(ret) : i # j => ret[i].code # ret[j].code
            /\ \A i \in 1..(Len(ret) - 1) :
                 CodeNum(ret[i].code) < CodeNum(ret[i + 1].code)

\* a search returned two children (which the response gave in either order)
C8_Witness ==
    /\ returned.op = "children"
    /\ ~returned.hit
    /\ Len(returned.ret) = 2

\* the search terms of searchChildCodes for P, in their order
TermsInOrder(P) ==
    << P, P \o <<"*">>, P \o <<"0">>, P \o <<"1">>,
       IF Len(P) > 2 THEN <<P[1], P[2]>> ELSE P >>

\* C9: the k-th request of a searchChildCodes call is for the k-th of the
\* terms P, P*, P0, P1, P[0..2]; a request is in flight only while no
\* earlier term has yielded a child; and the call ends without a child only
\* after all five terms were requested (a failed or childless term never
\* ends the search early).
C9_SearchTermsInOrder ==
    /\ \A call \in BagToSet(calls) :
         call.pc = "search" =>
            /\ call.nreq \in 1..5
            /\ call.input = TermsInOrder(call.arg)[call.nreq]
            /\ call.codes = <<>>
    /\ (returned.op = "children" /\ ~returned.hit) =>
            /\ returned.nreq \in 1..5
            /\ returned.ret = <<>> => returned.nreq = 5

\* a search whose first two terms gave no child and whose third gave one
C9_Witness ==
    /\ returned.op = "children"
    /\ ~returned.hit
    /\ returned.nreq = 3
    /\ returned.ret # <<>>

\* C10: fetchNAICSCodes runs the sweep only when the chart yielded no code,
\* returns the chart's codes when it yielded some, else the sweep's when it
\* yielded some, else the static list; it never returns an empty list.
C10_ChartElseSweepElseFallback ==
    /\ \A call \in BagToSet(calls) : call.pc = "sweep" => call.codes = <<>>
    /\ returned.op = "all" =>
         /\ Len(returned.ret) > 0
         /\ ~returned.hit =>
              /\ returned.chart # <<>> =>
                    returned.ret = returned.chart /\ returned.nreq = 1
              /\ (returned.chart = <<>> /\ returned.swept # <<>>) =>
                    returned.ret = returned.swept
              /\ returned.chart = <<>> => returned.nreq = 37

\* chart and sweep both yielded nothing and the static list was returned
C10_Witness ==
    /\ returned.op = "all"
    /\ ~returned.hit
    /\ returned.chart = <<>>
    /\ returned.swept = <<>>
    /\ Len(returned.ret) = 47

\* C15: when the child-code lookup for a parent fails (no search request
\* of the call was answered with a body that parsed), getChildCodes stores
\* no cache entry for the parent, so that a later call searches again.
C15_FailedLookupIsNotCached ==
    (/\ returned.op = "children"
     /\ ~returned.hit
     /\ ~returned.ok)
    => ChildrenKey(returned.arg) \notin DOMAIN cache

====
